---- MODULE Spec2Model ----
(***************************************************************************)
(* GPU pricing collector: provider adapters (aws, azure, gcp, ali,         *)
(* tencent), the merge in fetch_all.fetch_prices and the report in         *)
(* fetch_all.main.                                                         *)
(*                                                                         *)
(* Representation.  A Python str is a sequence of one-character strings.   *)
(* None / NaN is the record Null.  Numbers are tagged records; a float     *)
(* that the code obtains by a division is kept as an exact fraction.       *)
(* A function's outcome is a record: a returned value or an exception.     *)
(***************************************************************************)
EXTENDS Integers, Sequences, FiniteSets, TLC

VARIABLES
    \* azure.parse_gpu_info, one call
    gpu_prefix, gpu_sep, gpu_name, gpu_suffix,  \* how the descriptor was put together
    gpu_string,                                 \* the argument
    parse_pc,                                   \* "call" | "returned" | "raised"
    parse_result,                               \* the value returned, or the exception
    \* aws.get_on_demand_price, one call
    odp_region,                                 \* the region argument
    odp_pc,                                     \* "client" | "loop" | "returned" | "raised"
    price, retries,                             \* the locals of the function
    odp_result,                                 \* the value returned
    requests,                                   \* get_products calls made, counted up to MaxRequests
    last_response,                              \* what the latest get_products call gave
    only_zero,                                  \* every call so far gave a price list priced 0.0
    \* one adapter's get_standardized_gpu_instances(region), one call
    ad_provider,                                \* the module: "aws", "azure", "gcp", "ali", "tencent"
    ad_region,                                  \* the region argument
    ad_world,                                   \* what the provider's upstream answers
    ad_pc,                                      \* "call" | "returned" | "raised" | "hangs"
    ad_result,                                  \* the rows returned, or the exception
    \* fetch_all.fetch_prices(provider_regions), then the rest of fetch_all.main
    provider_regions,                           \* the argument
    run_pc,                                     \* "loop" | "hangs" | "returned" | "exit" | "written"
    idx,                                        \* position of the loop in provider_regions
    all_data,                                   \* the local of fetch_prices
    outcomes,                                   \* what each pass of the loop did, in order
    df,                                         \* the frame fetch_prices returns
    written,                                    \* the frame main writes
    \* azure.normalize_instance_name, called on two names that differ in letter case only
    name_a, name_b,                             \* the two arguments
    norm_pc,                                    \* "call" | "returned"
    key_a, key_b,                               \* the two values returned
    \* the price lookup of azure.get_gpu_instances for one instance
    lk_prices,                                  \* pricing_data, the items of the price feed
    lk_key,                                     \* instance_key, the name in the details feed
    lk_pc,                                      \* "build" | "find" | "found"
    lk_lookup,                                  \* pricing_lookup, the local of get_gpu_instances
    lk_pricing                                  \* pricing, the local of get_gpu_instances

parseVars == <<gpu_prefix, gpu_sep, gpu_name, gpu_suffix, gpu_string, parse_pc, parse_result>>
odpVars == <<odp_region, odp_pc, price, retries, odp_result, requests, last_response, only_zero>>
adVars == <<ad_provider, ad_region, ad_world, ad_pc, ad_result>>
runVars == <<provider_regions, run_pc, idx, all_data, outcomes, df, written>>
normVars == <<name_a, name_b, norm_pc, key_a, key_b>>
lookupVars == <<lk_prices, lk_key, lk_pc, lk_lookup, lk_pricing>>

vars == <<parseVars, odpVars, adVars, runVars, normVars, lookupVars>>

\* what a call of one function leaves alone
notParseVars == <<odpVars, adVars, runVars, normVars, lookupVars>>
notOdpVars == <<parseVars, adVars, runVars, normVars, lookupVars>>
notAdVars == <<parseVars, odpVars, runVars, normVars, lookupVars>>
notRunVars == <<parseVars, odpVars, adVars, normVars, lookupVars>>
notNormVars == <<parseVars, odpVars, adVars, runVars, lookupVars>>
notLookupVars == <<parseVars, odpVars, adVars, runVars, normVars>>

----------------------------------------------------------------------------
(* Python values *)

Null == [k |-> "null"]
Num(n) == [k |-> "num", n |-> n, d |-> 1]
Str(s) == [k |-> "str", s |-> s]

Min(S) == CHOOSE m \in S : \A o \in S : m <= o
Max(S) == CHOOSE m \in S : \A o \in S : m >= o

RECURSIVE Gcd(_, _)
Gcd(a, b) == IF b = 0 THEN a ELSE Gcd(b, a % b)

\* a / b as Python's true division gives it, kept exact (b > 0)
Frac(a, b) == LET g == Gcd(a, b) IN [k |-> "num", n |-> a \div g, d |-> b \div g]

Zero == Num(0)
IsNum(x) == x.k = "num"
Times(x, y) == Frac(x.n * y.n, x.d * y.d)
Plus(x, y) == Frac(x.n * y.d + y.n * x.d, x.d * y.d)
Positive(x) == x.n > 0

----------------------------------------------------------------------------
(* Python str operations on character sequences *)

Digits == {"0", "1", "2", "3", "4", "5", "6", "7", "8", "9"}
Whitespace == {" "}

DigitVal(c) ==
    CASE c = "0" -> 0 [] c = "1" -> 1 [] c = "2" -> 2 [] c = "3" -> 3 [] c = "4" -> 4
      [] c = "5" -> 5 [] c = "6" -> 6 [] c = "7" -> 7 [] c = "8" -> 8 [] c = "9" -> 9

\* s[i:] with a 1-based i
From(s, i) == SubSeq(s, i, Len(s))

\* s.startswith(pat, i-1)
MatchAt(s, pat, i) ==
    /\ i + Len(pat) - 1 <= Len(s)
    /\ \A j \in 1..Len(pat) : s[i + j - 1] = pat[j]

\* s.find(pat) + 1: the first place pat occurs in s, 0 when it does not
Find(s, pat) ==
    LET at == {i \in 1..(Len(s) + 1) : MatchAt(s, pat, i)}
    IN IF at = {} THEN 0 ELSE Min(at)

\* pat in s
Contains(s, pat) == Find(s, pat) # 0

\* s.split(sep, maxsplit)
RECURSIVE SplitN(_, _, _)
SplitN(s, sep, maxsplit) ==
    LET i == Find(s, sep)
    IN IF maxsplit = 0 \/ i = 0
       THEN <<s>>
       ELSE <<SubSeq(s, 1, i - 1)>> \o SplitN(From(s, i + Len(sep)), sep, maxsplit - 1)

\* s.split(sep)
Split(s, sep) == SplitN(s, sep, Len(s))

\* s.replace(old, new), old not empty
RECURSIVE Replace(_, _, _)
Replace(s, old, new) ==
    LET i == Find(s, old)
    IN IF i = 0
       THEN s
       ELSE SubSeq(s, 1, i - 1) \o new \o Replace(From(s, i + Len(old)), old, new)

\* the number of leading characters of s that are in set C
RECURSIVE LeadingIn(_, _)
LeadingIn(s, C) ==
    IF s = <<>> \/ Head(s) \notin C THEN 0 ELSE 1 + LeadingIn(Tail(s), C)

RECURSIVE Reverse(_)
Reverse(s) == IF s = <<>> THEN <<>> ELSE Reverse(Tail(s)) \o <<Head(s)>>

\* s.strip()
Strip(s) ==
    LET a == LeadingIn(s, Whitespace)
        b == LeadingIn(Reverse(s), Whitespace)
    IN IF a = Len(s) THEN <<>> ELSE SubSeq(s, a + 1, Len(s) - b)

\* int(s) of a string of digits
RECURSIVE PyInt(_)
PyInt(s) == IF s = <<>> THEN 0 ELSE 10 * PyInt(SubSeq(s, 1, Len(s) - 1)) + DigitVal(s[Len(s)])

AllDigits(s) == s # <<>> /\ \A i \in 1..Len(s) : s[i] \in Digits

----------------------------------------------------------------------------
(* azure.parse_gpu_info *)

\* A function's outcome: a returned value or an exception that leaves it.
Returned(v) == [raised |-> FALSE, value |-> v]
Raised(e) == [raised |-> TRUE, exc |-> e]
\* a JSON object's .get(key, default)
Get(obj, key, default) == IF key \in DOMAIN obj THEN obj[key] ELSE default

\* A decimal integer literal of Python 3: digits, without a leading zero unless
\* the literal is all zeros.
IsIntLiteral(t) == AllDigits(t) /\ (t[1] = "0" => \A i \in 1..Len(t) : t[i] = "0")

\* The value of t1 / t2 / ... / tn, left to right, as the fraction num/den; den = 0
\* records a division by zero.
RECURSIVE DivChain(_)
DivChain(ts) ==
    IF Len(ts) = 1
    THEN [num |-> PyInt(ts[1]), den |-> 1]
    ELSE LET q == DivChain(SubSeq(ts, 1, Len(ts) - 1))
             v == PyInt(ts[Len(ts)])
         IN IF q.den = 0 \/ v = 0
            THEN [num |-> 0, den |-> 0]
            ELSE [num |-> q.num, den |-> q.den * v]

\* float(eval(expr)) for an expression made of integer literals and '/', between
\* optional blanks; every other text over the alphabet of the descriptors is
\* not an expression Python can evaluate: eval raises a SyntaxError or a
\* NameError, written EvalError here.
EvalFloat(expr) ==
    LET e == Strip(expr)
        ts == Split(e, <<"/">>)
    IN IF \E i \in 1..Len(ts) : ~IsIntLiteral(ts[i])
       THEN Raised("EvalError")
       ELSE LET q == DivChain(ts)
            IN IF q.den = 0 THEN Raised("ZeroDivisionError")
               ELSE Returned(Frac(q.num, q.den))

\* rem matches \s+\(.*\) up to the end of the string
ParenSuffix(rem) ==
    LET w == LeadingIn(rem, Whitespace)
    IN /\ w >= 1
       /\ Len(rem) >= w + 2
       /\ rem[w + 1] = "("
       /\ rem[Len(rem)] = ")"

\* group 2 of (.+?)(?:\s+\(.*\))?$ on a non-empty tail: the shortest non-empty
\* prefix that leaves nothing or a parenthetical annotation
LazyName(tail) ==
    LET ks == {k \in 1..Len(tail) :
                  LET rem == From(tail, k + 1) IN rem = <<>> \/ ParenSuffix(rem)}
    IN SubSeq(tail, 1, Min(ks))

\* re.match(r'(\d+)(?:x|X)\s+(.+?)(?:\s+\(.*\))?$', s): the groups, or no match
MatchGpu(s) ==
    LET nd == LeadingIn(s, Digits)
        rest == From(s, nd + 2)
        ws == LeadingIn(rest, Whitespace)
    IN IF nd = 0 \/ Len(s) < nd + 1 \/ s[nd + 1] \notin {"x", "X"} \/ ws = 0
       THEN [matched |-> FALSE]
       ELSE IF ws < Len(rest)
            THEN [matched |-> TRUE, g1 |-> SubSeq(s, 1, nd), g2 |-> LazyName(From(rest, ws + 1))]
            ELSE IF ws >= 2
                 \* only blanks follow the x: \s+ gives one back to (.+?)
                 THEN [matched |-> TRUE, g1 |-> SubSeq(s, 1, nd), g2 |-> <<" ">>]
                 ELSE [matched |-> FALSE]

GpuDict(type, count) == [k |-> "dict", gpu_type |-> type, gpu_count |-> count]

ParseFraction(s) ==
    LET parts == SplitN(s, <<"X", " ">>, 1)
    IN IF Len(parts) # 2
       THEN Returned(Null)
       ELSE LET fraction == EvalFloat(parts[1])
            IN IF fraction.raised
               THEN fraction
               ELSE Returned(GpuDict(Strip(parts[2]), fraction.value))

ParseInteger(s) ==
    LET m == MatchGpu(s)
    IN IF m.matched
       THEN Returned(GpuDict(Strip(m.g2), Num(PyInt(m.g1))))
       ELSE Returned(Null)

parse_gpu_info(s) ==
    IF s = <<>>
    THEN Returned(Null)
    ELSE IF Contains(s, <<"/">>)
         THEN ParseFraction(s)
         ELSE ParseInteger(s)

----------------------------------------------------------------------------
(* One call of azure.parse_gpu_info on a descriptor put together from a      *)
(* count, a separator, a GPU name and an annotation.                        *)

CountTexts ==
    { <<>>, <<"1">>, <<"8">>, <<"0">>, <<"1", "6">>,
      <<"1", "/", "2">>, <<"2", "/", "4">>, <<"1", "/", "0">>, <<"A", "/", "2">>, <<"/">> }
SepTexts == { <<"X", " ">>, <<"x", " ">>, <<"X">>, <<" ">> }
NameTexts == { <<"A", "1", "0">>, <<"V", "1", "0", "0">>, <<"R", "T", "X", " ", "A", "6">>, <<>> }
AnnotationTexts == { <<>>, <<" ", "(", "N", "V", "l", "i", "n", "k", ")">>, <<"(", "N", ")">> }

ParseCall ==
    /\ gpu_prefix \in CountTexts
    /\ gpu_sep \in SepTexts
    /\ gpu_name \in NameTexts
    /\ gpu_suffix \in AnnotationTexts
    /\ gpu_string = gpu_prefix \o gpu_sep \o gpu_name \o gpu_suffix
    /\ parse_pc = "call"
    /\ parse_result = Null

CallParse ==
    /\ parse_pc = "call"
    /\ LET r == parse_gpu_info(gpu_string)
       IN /\ parse_pc' = IF r.raised THEN "raised" ELSE "returned"
          /\ parse_result' = IF r.raised THEN Str(r.exc) ELSE r.value
    /\ UNCHANGED <<gpu_prefix, gpu_sep, gpu_name, gpu_suffix, gpu_string>>
    /\ UNCHANGED notParseVars

ParseIdle ==
    /\ gpu_prefix = <<>> /\ gpu_sep = <<>> /\ gpu_name = <<>> /\ gpu_suffix = <<>>
    /\ gpu_string = <<>>
    /\ parse_pc = "idle"
    /\ parse_result = Null

----------------------------------------------------------------------------
(* aws.get_on_demand_price *)

CNY_TO_USD == Frac(138, 1000)

is_china_region(region) == MatchAt(region, <<"c", "n", "-">>, 1)

\* the retry limit of `if (retries > 3)`
MaxRetries == 3

\* the comparison taken one step early
RetriesExhaustedEarly(n) == n >= MaxRetries

RetriesExhausted(n) == n > MaxRetries

\* float(pricePerUnit[...]) of the first price dimension, in USD
QuotedPrice(region, quote) ==
    IF is_china_region(region) THEN Times(quote, CNY_TO_USD) ELSE quote

\* What one get_products call can give: a price list whose first product
\* carries the quote, an empty price list, or an exception (raised by the
\* call, or by reading a product that lacks a key).
PriceQuotes == { Zero, Frac(306, 100), Frac(24, 1) }
Responses ==
    [kind : {"quote"}, quote : PriceQuotes] \cup { [kind |-> "empty"], [kind |-> "error"] }
NoResponse == [kind |-> "none"]

AwsRegions ==
    { <<"u", "s", "-", "w", "e", "s", "t", "-", "2">>,
      <<"c", "n", "-", "n", "o", "r", "t", "h", "-", "1">> }

\* calls beyond this many are not counted
MaxRequests == 6

OdpStart(regions, pc) ==
    /\ odp_region \in regions
    /\ odp_pc = pc
    /\ price = Zero
    /\ retries = 0
    /\ odp_result = Null
    /\ requests = 0
    /\ last_response = NoResponse
    /\ only_zero = TRUE

\* pricing_client = get_boto3_client('pricing', region): boto3.client builds the
\* client or raises (no credentials, unknown endpoint), outside any try.
OdpCreateClient ==
    /\ odp_pc = "client"
    /\ \E ok \in BOOLEAN : odp_pc' = IF ok THEN "loop" ELSE "raised"
    /\ UNCHANGED <<odp_region, price, retries, odp_result, requests, last_response, only_zero>>
    /\ UNCHANGED notOdpVars

\* One pass of `while (price == 0.0)` from the locals st, when get_products
\* answers r: the locals after it, and whether and what the pass returns.
OdpStep(region, st, r) ==
    IF r.kind = "quote"
    THEN LET p == QuotedPrice(region, r.quote)
         IN IF p # Zero
            THEN [price |-> p, retries |-> st.retries, returned |-> TRUE, result |-> p]
            ELSE IF RetriesExhausted(st.retries + 1)
                 THEN [price |-> p, retries |-> st.retries + 1, returned |-> TRUE,
                       result |-> Zero]
                 ELSE [price |-> p, retries |-> st.retries + 1, returned |-> FALSE,
                       result |-> Null]
    \* an empty PriceList, or the except clause: the loop goes round
    ELSE [price |-> st.price, retries |-> st.retries, returned |-> FALSE, result |-> Null]

OdpAttempt ==
    /\ odp_pc = "loop"
    /\ price = Zero
    /\ \E r \in Responses :
          LET after == OdpStep(odp_region, [price |-> price, retries |-> retries], r)
          IN /\ requests' = IF requests < MaxRequests THEN requests + 1 ELSE requests
             /\ last_response' = r
             /\ only_zero' = (only_zero /\ r.kind = "quote" /\ r.quote = Zero)
             /\ price' = after.price
             /\ retries' = after.retries
             /\ odp_pc' = IF after.returned THEN "returned" ELSE "loop"
             /\ odp_result' = IF after.returned THEN after.result ELSE odp_result
    /\ UNCHANGED odp_region
    /\ UNCHANGED notOdpVars

\* The `return 0.0` that follows the loop is never reached: the loop is left
\* only by the two returns inside it.

----------------------------------------------------------------------------
(* What the adapters share *)

IsStr(x) == x.k = "str"

Range(f) == {f[i] : i \in DOMAIN f}

\* all sequences over S of length at most n
SeqsUpTo(S, n) == UNION {[1..m -> S] : m \in 0..n}

\* the canonical columns, in the order every standardize_instance_data writes them
required_columns ==
    << "Provider", "Region", "Instance Type", "vCPUs", "Memory (GB)", "GPU Type",
       "GPU Count", "On-Demand Price ($/hr)", "Spot Price ($/hr)" >>

\* a row that carries the zone the adapter derived in place of the region
StandardRowZoned(provider, region, instance, on_demand, spot) ==
    ("Provider" :> Str(provider)) @@ ("Region" :> Str(region \o <<"-", "b">>))
    @@ ("Instance Type" :> instance["Instance Type"])
    @@ ("vCPUs" :> instance["vCPUs"])
    @@ ("Memory (GB)" :> instance["Memory (GB)"])
    @@ ("GPU Type" :> instance["GPU Type"])
    @@ ("GPU Count" :> instance["GPU Count"])
    @@ ("On-Demand Price ($/hr)" :> on_demand)
    @@ ("Spot Price ($/hr)" :> spot)

\* the dict a standardize_instance_data returns
StandardRow(provider, region, instance, on_demand, spot) ==
    ("Provider" :> Str(provider)) @@ ("Region" :> Str(region))
    @@ ("Instance Type" :> instance["Instance Type"])
    @@ ("vCPUs" :> instance["vCPUs"])
    @@ ("Memory (GB)" :> instance["Memory (GB)"])
    @@ ("GPU Type" :> instance["GPU Type"])
    @@ ("GPU Count" :> instance["GPU Count"])
    @@ ("On-Demand Price ($/hr)" :> on_demand)
    @@ ("Spot Price ($/hr)" :> spot)

\* what a loop makes of the outcomes of its passes: the first exception, or
\* the rows of all passes in order
RECURSIVE Gather(_)
Gather(passes) ==
    IF passes = <<>>
    THEN Returned(<<>>)
    ELSE LET h == Head(passes)
         IN IF h.raised
            THEN h
            ELSE LET t == Gather(Tail(passes))
                 IN IF t.raised THEN t ELSE Returned(h.value \o t.value)

\* a loop that appends what Each gives for every item, until one raises
Collect(Each(_), items) == Gather([i \in 1..Len(items) |-> Each(items[i])])

----------------------------------------------------------------------------
(* tencent.py *)

GIB_TO_GB == Frac(1074, 1000)

\* one pass of the loop over InstanceTypeQuotaSet: nothing, one instance dict, or
\* the exception the pass raises. A JSON null is Null; a key that is absent takes
\* the default of its .get. Price.UnitPrice and Externals.GPUDesc are written
\* UnitPrice and GPUDesc.
tencent_instance(instance) ==
    LET gpu == Get(instance, "Gpu", Zero)
        instance_type == Get(instance, "InstanceType", Str(<<>>))
        price_cny == Get(instance, "UnitPrice", Zero)
        memory == Get(instance, "Memory", Zero)
        desc == Get(instance, "GPUDesc", Str(<<"0", " ", "*", " ", "N", "/", "A">>))
    IN IF ~IsNum(gpu)
       THEN Raised("TypeError")
       ELSE IF ~Positive(gpu)
       THEN Returned(<<>>)
       ELSE IF ~IsStr(instance_type) \/ ~IsNum(price_cny) \/ ~IsNum(memory)
       THEN Raised("TypeError")
       ELSE IF ~IsStr(desc)
       THEN Raised("AttributeError")
       ELSE IF Len(Split(desc.s, <<" ", "*", " ">>)) < 2
       THEN Raised("IndexError")
       ELSE Returned(<<
               ("Instance Type" :> instance_type)
               @@ ("vCPUs" :> Get(instance, "Cpu", Zero))
               @@ ("Memory (GB)" :> Times(memory, GIB_TO_GB))
               @@ ("GPU Type" :> Str(Split(desc.s, <<" ", "*", " ">>)[2]))
               @@ ("GPU Count" :> Get(instance, "GpuCount", Zero))
               @@ ("On-Demand Price ($/hr)" :> Times(price_cny, CNY_TO_USD)) >>)

\* world.transport: "ok", or "request_error" when requests.post or
\* raise_for_status raises a RequestException
tencent_get_instance_types_with_gpu(region, world) ==
    IF world.transport # "ok"
    THEN Returned(<<>>)
    ELSE IF ~world.has_response
    THEN Returned(<<>>)
    ELSE Collect(tencent_instance, world.quota)

tencent_standardize_instance_data(instance, region) ==
    StandardRow(<<"T", "e", "n", "c", "e", "n", "t">>, region, instance, instance["On-Demand Price ($/hr)"], Zero)

\* the loop of get_standardized_gpu_instances over what was fetched
tencent_standardize_all(gpu_instances, region) ==
    IF gpu_instances.raised
    THEN gpu_instances
    ELSE Returned([i \in 1..Len(gpu_instances.value) |->
                      tencent_standardize_instance_data(gpu_instances.value[i], region)])

tencent_get_standardized_gpu_instances(region, world) ==
    tencent_standardize_all(tencent_get_instance_types_with_gpu(region, world), region)

\* records of InstanceTypeQuotaSet
TencentGood ==
    [Gpu |-> Num(1), InstanceType |-> Str(<<"G", "N", "7", ".", "2", "X", "L", "A", "R", "G", "E", "3", "2">>), Cpu |-> Num(8),
     Memory |-> Num(32), GpuCount |-> Num(1), GPUDesc |-> Str(<<"1", " ", "*", " ", "N", "V", "I", "D", "I", "A", " ", "T", "4">>),
     UnitPrice |-> Num(8)]
TencentRecords ==
    { TencentGood,
      \* no GPU
      [TencentGood EXCEPT !.Gpu = Zero, !.InstanceType = Str(<<"S", "5", ".", "L", "A", "R", "G", "E", "8">>)],
      \* Gpu is set, GpuCount is absent
      [Gpu |-> Num(1), InstanceType |-> Str(<<"G", "N", "1", "0", "X", ".", "2", "X", "L", "A", "R", "G", "E", "4", "0">>), Cpu |-> Num(8),
       Memory |-> Num(40), GPUDesc |-> Str(<<"1", " ", "*", " ", "N", "V", "I", "D", "I", "A", " ", "V", "1", "0", "0">>), UnitPrice |-> Num(12)],
      \* no price, no GPU description, no name
      [Gpu |-> Num(1), Cpu |-> Num(4), Memory |-> Num(16), GpuCount |-> Num(2)],
      \* a GPU description without " * "
      [TencentGood EXCEPT !.GPUDesc = Str(<<"N", "V", "I", "D", "I", "A", " ", "T", "4">>)],
      \* "Cpu": null
      [TencentGood EXCEPT !.Cpu = Null] }

\* the longest catalog (records, machine types, price entries) an upstream returns
MaxRecords == 2

TencentWorlds ==
    { [transport |-> "request_error", has_response |-> FALSE, quota |-> <<>>],
      [transport |-> "ok", has_response |-> FALSE, quota |-> <<>>] }
    \cup [transport : {"ok"}, has_response : {TRUE}, quota : SeqsUpTo(TencentRecords, MaxRecords)]

----------------------------------------------------------------------------
(* ali.py *)

\* load_pricing: the file instancePrice.json is missing (open raises), is no
\* JSON, or holds an object with or without 'pricingInfo'; pricingInfo is the
\* sequence of its (key, price_info) items in file order.
ali_load_pricing(world) ==
    IF world.pricing_file = "missing"
    THEN Raised("FileNotFoundError")
    ELSE IF world.pricing_file = "bad_json"
    THEN Returned(<<>>)
    ELSE IF ~world.has_pricing_info
    THEN Returned(<<>>)
    ELSE IF world.pricing = <<>>
    \* next(iter({})) in the debugging print
    THEN Raised("StopIteration")
    ELSE Returned(world.pricing)

\* a test of the key that does not ask for 'vpc'
ali_key_matches_any_network(key, region) ==
    LET parts == Split(key, <<":", ":">>)
    IN Len(parts) >= 2 /\ parts[1] = region /\ Contains(key, <<"l", "i", "n", "u", "x">>)

ali_key_matches(key, region) ==
    LET parts == Split(key, <<":", ":">>)
    IN Len(parts) >= 2 /\ parts[1] = region /\ Contains(key, <<"v", "p", "c">>) /\ Contains(key, <<"l", "i", "n", "u", "x">>)

ali_get_instances_in_region(pricing_data, region) ==
    { Split(pricing_data[i].key, <<":", ":">>)[2] :
        i \in {j \in 1..Len(pricing_data) : ali_key_matches(pricing_data[j].key, region)} }

\* load_instance_types: instanceTypeDefinition.js is missing, cannot be
\* repaired into JSON, or gives a list of objects
ali_load_instance_types(world) ==
    IF world.types_file = "missing"
    THEN Raised("FileNotFoundError")
    ELSE IF world.types_file = "bad_json"
    THEN Returned(<<>>)
    ELSE Returned(world.types)

ali_gpu_instance(instance, available_instances) ==
    LET gpu_amount == Get(instance, "GPUAmount", Zero)
        instance_type == Get(instance, "InstanceTypeId", Null)
    IN IF ~IsNum(gpu_amount)
       THEN Raised("TypeError")
       ELSE IF Positive(gpu_amount) /\ IsStr(instance_type) /\ instance_type.s # <<>>
               /\ instance_type.s \in available_instances
       THEN Returned(<<
               ("Instance Type" :> instance_type)
               @@ ("vCPUs" :> Get(instance, "CpuCoreCount", Zero))
               @@ ("Memory (GB)" :> Get(instance, "MemorySize", Zero))
               @@ ("GPU Type" :> Get(instance, "GPUSpec", Str(<<>>)))
               @@ ("GPU Count" :> gpu_amount) >>)
       ELSE Returned(<<>>)

ali_get_gpu_instances(available_instances, world) ==
    LET instances == ali_load_instance_types(world)
    IN IF instances.raised
       THEN instances
       ELSE LET Each(instance) == ali_gpu_instance(instance, available_instances)
            IN Collect(Each, instances.value)

\* the price of the first matching key, in feed order, that has a non-empty
\* 'hours' list; 0.0 when there is none
RECURSIVE ali_price(_, _, _)
ali_price(pricing_data, region, instance_type) ==
    IF pricing_data = <<>>
    THEN Zero
    ELSE LET key == Head(pricing_data).key
             price_info == Head(pricing_data).info
         IN IF ali_key_matches(key, region) /\ Split(key, <<":", ":">>)[2] = instance_type
               /\ "hours" \in DOMAIN price_info /\ price_info.hours # <<>>
            THEN Get(price_info.hours[1], "price", Zero)
            ELSE ali_price(Tail(pricing_data), region, instance_type)

ali_get_prices(gpu_instances, region, pricing_data) ==
    [i \in 1..Len(gpu_instances) |->
        gpu_instances[i] @@ ("On-Demand Price ($/hr)" :>
            ali_price(pricing_data, region, gpu_instances[i]["Instance Type"].s))]

ali_standardize_instance_data(instance, region) ==
    StandardRow(<<"A", "l", "i", "b", "a", "b", "a">>, region, instance, instance["On-Demand Price ($/hr)"], Zero)

\* get_standardized_gpu_instances once the GPU instances of the region are known
ali_standardize_all(gpu_instances, region, pricing_data) ==
    IF gpu_instances.raised
    THEN gpu_instances
    ELSE IF gpu_instances.value = <<>>
    THEN Returned(<<>>)
    ELSE Returned([i \in 1..Len(gpu_instances.value) |->
                      ali_standardize_instance_data(
                          ali_get_prices(gpu_instances.value, region, pricing_data)[i],
                          region)])

\* get_standardized_gpu_instances once load_pricing is done
ali_with_pricing(pricing_data, region, world) ==
    IF pricing_data.raised
    THEN pricing_data
    ELSE ali_standardize_all(
             ali_get_gpu_instances(ali_get_instances_in_region(pricing_data.value, region),
                                   world),
             region, pricing_data.value)

ali_get_standardized_gpu_instances(region, world) ==
    ali_with_pricing(ali_load_pricing(world), region, world)

AliRegion == <<"u", "s", "-", "w", "e", "s", "t", "-", "1">>

AliGn6iPrice ==
    [key |-> <<"u", "s", "-", "w", "e", "s", "t", "-", "1", ":", ":", "e", "c", "s", ".", "g", "n", "6", "i", ":", ":", "v", "p", "c", ":", ":", "l", "i", "n", "u", "x">>, info |-> [hours |-> <<[price |-> Frac(12, 10)]>>]]
AliPriceEntries ==
    { AliGn6iPrice,
      [key |-> <<"u", "s", "-", "w", "e", "s", "t", "-", "1", ":", ":", "e", "c", "s", ".", "g", "n", "6", "i", ":", ":", "l", "i", "n", "u", "x", ":", ":", "v", "p", "c">>, info |-> [hours |-> <<>>]],
      [key |-> <<"u", "s", "-", "w", "e", "s", "t", "-", "1", ":", ":", "e", "c", "s", ".", "g", "n", "7", ":", ":", "v", "p", "c", ":", ":", "l", "i", "n", "u", "x">>, info |-> [months |-> <<>>]],
      [key |-> <<"u", "s", "-", "w", "e", "s", "t", "-", "1", ":", ":", "e", "c", "s", ".", "g", "n", "6", "i", ":", ":", "c", "l", "a", "s", "s", "i", "c", ":", ":", "l", "i", "n", "u", "x">>, info |-> [hours |-> <<[price |-> Num(2)]>>]],
      [key |-> <<"e", "u", "-", "w", "e", "s", "t", "-", "1", ":", ":", "e", "c", "s", ".", "g", "n", "6", "i", ":", ":", "v", "p", "c", ":", ":", "l", "i", "n", "u", "x">>, info |-> [hours |-> <<[price |-> Num(3)]>>]] }

AliGood ==
    [InstanceTypeId |-> Str(<<"e", "c", "s", ".", "g", "n", "6", "i">>), GPUAmount |-> Num(1), CpuCoreCount |-> Num(4),
     MemorySize |-> Num(15), GPUSpec |-> Str(<<"N", "V", "I", "D", "I", "A", " ", "T", "4">>)]
AliTypes ==
    { AliGood,
      [AliGood EXCEPT !.InstanceTypeId = Str(<<"e", "c", "s", ".", "g", "n", "7">>), !.GPUAmount = Num(8)],
      \* no GPU
      [InstanceTypeId |-> Str(<<"e", "c", "s", ".", "g", "6">>), CpuCoreCount |-> Num(2), MemorySize |-> Num(8)],
      \* "GPUSpec": null
      [AliGood EXCEPT !.GPUSpec = Null] }

\* pricingInfo is a JSON object: no key is in it twice
AliFeeds ==
    { feed \in SeqsUpTo(AliPriceEntries, MaxRecords) \ {<<>>} :
        \A i, j \in 1..Len(feed) : feed[i].key = feed[j].key => i = j }

AliWorlds ==
    { [pricing_file |-> "missing", has_pricing_info |-> FALSE, pricing |-> <<>>,
       types_file |-> "ok", types |-> <<AliGood>>],
      [pricing_file |-> "bad_json", has_pricing_info |-> FALSE, pricing |-> <<>>,
       types_file |-> "ok", types |-> <<AliGood>>],
      [pricing_file |-> "ok", has_pricing_info |-> FALSE, pricing |-> <<>>,
       types_file |-> "ok", types |-> <<AliGood>>],
      [pricing_file |-> "ok", has_pricing_info |-> TRUE, pricing |-> <<>>,
       types_file |-> "ok", types |-> <<AliGood>>] }
    \cup [pricing_file : {"ok"}, has_pricing_info : {TRUE},
          pricing : AliFeeds,
          types_file : {"missing", "bad_json"}, types : {<<>>}]
    \cup [pricing_file : {"ok"}, has_pricing_info : {TRUE},
          pricing : AliFeeds,
          types_file : {"ok"}, types : SeqsUpTo(AliTypes, MaxRecords)]

----------------------------------------------------------------------------
(* azure.py *)

UpperLetters ==
    << "A", "B", "C", "D", "E", "F", "G", "H", "I", "J", "K", "L", "M",
       "N", "O", "P", "Q", "R", "S", "T", "U", "V", "W", "X", "Y", "Z" >>
LowerLetters ==
    << "a", "b", "c", "d", "e", "f", "g", "h", "i", "j", "k", "l", "m",
       "n", "o", "p", "q", "r", "s", "t", "u", "v", "w", "x", "y", "z" >>

LowerChar(c) ==
    IF c \in Range(UpperLetters)
    THEN LowerLetters[CHOOSE i \in 1..Len(UpperLetters) : UpperLetters[i] = c]
    ELSE c

\* s.lower()
Lower(s) == [i \in 1..Len(s) |-> LowerChar(s[i])]

\* re.sub(r'v(\d)', r'\1', s): every 'v' that a digit follows is dropped
RECURSIVE DropVersionV(_)
DropVersionV(s) ==
    IF s = <<>>
    THEN <<>>
    ELSE IF Head(s) = "v" /\ Len(s) >= 2 /\ s[2] \in Digits
         THEN DropVersionV(Tail(s))
         ELSE <<Head(s)>> \o DropVersionV(Tail(s))

normalize_instance_name(name) ==
    LET a == Replace(name, <<"S", "t", "a", "n", "d", "a", "r", "d", "_">>, <<>>)
        b == Replace(a, <<"l", "i", "n", "u", "x", "-">>, <<>>)
        c == Replace(b, <<"-", "s", "t", "a", "n", "d", "a", "r", "d">>, <<>>)
        d == DropVersionV(Lower(c))
        e == Replace(d, <<"_">>, <<>>)
    IN Replace(e, <<"-">>, <<>>)

\* SKU names as the two feeds write them, in several letter cases
NamePrefixes == { <<>>, <<"S", "t", "a", "n", "d", "a", "r", "d", "_">>, <<"s", "t", "a", "n", "d", "a", "r", "d", "_">>, <<"S", "T", "A", "N", "D", "A", "R", "D", "_">>, <<"l", "i", "n", "u", "x", "-">>, <<"L", "i", "n", "u", "x", "-">> }
NameBodies == { <<"N", "C", "6">>, <<"n", "c", "6">>, <<"N", "c", "6">>, <<"N", "C", "2", "4", "a", "d", "s", "_", "A", "1", "0", "0", "_", "v", "4">>, <<"n", "c", "2", "4", "a", "d", "s", "_", "a", "1", "0", "0", "_", "v", "4">>, <<"N", "C", "2", "4", "A", "D", "S", "_", "A", "1", "0", "0", "_", "V", "4">> }
NameSuffixes == { <<>>, <<"-", "s", "t", "a", "n", "d", "a", "r", "d">>, <<"-", "S", "t", "a", "n", "d", "a", "r", "d">> }
SkuNames == {pre \o body \o suf : pre \in NamePrefixes, body \in NameBodies, suf \in NameSuffixes}

\* two calls of normalize_instance_name
NormStart(names, pc) ==
    /\ name_a \in names
    /\ name_b \in {n \in names : n # name_a /\ Lower(n) = Lower(name_a)}
    /\ norm_pc = pc
    /\ key_a = <<>>
    /\ key_b = <<>>

NormIdle ==
    /\ name_a = <<>> /\ name_b = <<>> /\ norm_pc = "idle" /\ key_a = <<>> /\ key_b = <<>>

CallNormalize ==
    /\ norm_pc = "call"
    /\ key_a' = normalize_instance_name(name_a)
    /\ key_b' = normalize_instance_name(name_b)
    /\ norm_pc' = "returned"
    /\ UNCHANGED <<name_a, name_b>>
    /\ UNCHANGED notNormVars

\* get_vm_pricing_data for a region without 'china' in its name: the items of
\* the retail prices API that are primary meter region, or [] when a request
\* raises a RequestException
azure_get_vm_pricing_data(region, world) ==
    IF world.pricing_status # "ok"
    THEN Returned(<<>>)
    ELSE Returned(SelectSeq(world.prices, LAMBDA item : Get(item, "isPrimaryMeterRegion", FALSE)))

\* get_instance_details: attributesByOffer as the sequence of its (key, details)
\* items; {} when raise_for_status raises. When requests.get itself raises, the
\* handler reads `response`, which was never bound.
azure_get_instance_details(world) ==
    IF world.details_status = "connect_error"
    THEN Raised("UnboundLocalError")
    ELSE IF world.details_status = "http_error"
    THEN Returned(<<>>)
    ELSE Returned(world.details)

\* the pricing lookup after the items up to the n-th
RECURSIVE azure_pricing_lookup(_, _)
azure_pricing_lookup(pricing_data, n) ==
    IF n = 0
    THEN <<>>
    ELSE LET before == azure_pricing_lookup(pricing_data, n - 1)
             item == pricing_data[n]
             sku_name == Get(item, "armSkuName", <<>>)
             normalized_name == normalize_instance_name(sku_name)
             at == {i \in 1..Len(before) : before[i].name = normalized_name}
             entry == IF at = {}
                      THEN [name |-> normalized_name, on_demand |-> Zero, spot |-> Zero,
                            original_name |-> sku_name]
                      ELSE before[CHOOSE i \in at : TRUE]
             updated == IF Contains(Get(item, "skuName", <<>>), <<"S", "p", "o", "t">>)
                        THEN [entry EXCEPT !.spot = Get(item, "retailPrice", Zero)]
                        ELSE [entry EXCEPT !.on_demand = Get(item, "retailPrice", Zero)]
         IN IF sku_name = <<>>
            THEN before
            ELSE IF at = {}
                 THEN Append(before, updated)
                 ELSE [before EXCEPT ![CHOOSE i \in at : TRUE] = updated]

azure_name_variations(normalized_name) ==
    << normalized_name,
       <<"s", "t", "a", "n", "d", "a", "r", "d">> \o normalized_name,
       Replace(normalized_name, <<"r">>, <<>>),
       Replace(normalized_name, <<"s">>, <<>>) >>

\* a loop over the variants that has no break: the entry of the last variant
\* that is in the lookup
azure_find_pricing_no_break(lookup, normalized_name) ==
    LET variants == azure_name_variations(normalized_name)
        hits == {v \in 1..Len(variants) :
                    \E i \in 1..Len(lookup) : lookup[i].name = variants[v]}
    IN IF hits = {}
       THEN Null
       ELSE LET variant == variants[Max(hits)]
            IN lookup[CHOOSE i \in 1..Len(lookup) : lookup[i].name = variant]

\* the entry of the first variant that is in the lookup, Null when none is
azure_find_pricing(lookup, normalized_name) ==
    LET variants == azure_name_variations(normalized_name)
        hits == {v \in 1..Len(variants) :
                    \E i \in 1..Len(lookup) : lookup[i].name = variants[v]}
    IN IF hits = {}
       THEN Null
       ELSE LET variant == variants[Min(hits)]
            IN lookup[CHOOSE i \in 1..Len(lookup) : lookup[i].name = variant]

\* price items whose names normalize to nc6rs, standardnc6rs, nc6s, nc6r and
\* nc24, each with a price of its own
LookupSkus ==
    << <<"S", "t", "a", "n", "d", "a", "r", "d", "_", "N", "C", "6", "r", "s">>,
      <<"s", "t", "a", "n", "d", "a", "r", "d", "_", "N", "C", "6", "r", "s">>,
      <<"S", "t", "a", "n", "d", "a", "r", "d", "_", "N", "C", "6", "s">>,
      <<"S", "t", "a", "n", "d", "a", "r", "d", "_", "N", "C", "6", "r">>,
      <<"S", "t", "a", "n", "d", "a", "r", "d", "_", "N", "C", "2", "4">> >>
LookupPriceItems ==
    { [armSkuName |-> LookupSkus[i], skuName |-> <<"N", "C">>, retailPrice |-> Num(i),
       isPrimaryMeterRegion |-> TRUE] : i \in 1..Len(LookupSkus) }
\* instance keys of the details feed
LookupKeys ==
    { <<"l", "i", "n", "u", "x", "-", "n", "c", "6", "r", "s", "-", "s", "t", "a", "n", "d", "a", "r", "d">>,
      <<"l", "i", "n", "u", "x", "-", "n", "c", "6", "r", "-", "s", "t", "a", "n", "d", "a", "r", "d">>,
      <<"l", "i", "n", "u", "x", "-", "n", "c", "2", "4", "-", "s", "t", "a", "n", "d", "a", "r", "d">> }
\* the longest price feed
MaxSkus == 3

\* get_gpu_instances has its pricing_data and reaches one instance_key
LookupStart(feeds, keys, pc) ==
    /\ lk_prices \in feeds
    /\ lk_key \in keys
    /\ lk_pc = pc
    /\ lk_lookup = <<>>
    /\ lk_pricing = Null

LookupIdle == LookupStart({<<>>}, {<<>>}, "idle")

\* the loop over pricing_data that fills pricing_lookup
BuildLookup ==
    /\ lk_pc = "build"
    /\ lk_lookup' = azure_pricing_lookup(lk_prices, Len(lk_prices))
    /\ lk_pc' = "find"
    /\ UNCHANGED <<lk_prices, lk_key, lk_pricing>>
    /\ UNCHANGED notLookupVars

\* the loop over name_variations for the instance
FindPricing ==
    /\ lk_pc = "find"
    /\ lk_pricing' = azure_find_pricing(lk_lookup, normalize_instance_name(lk_key))
    /\ lk_pc' = "found"
    /\ UNCHANGED <<lk_prices, lk_key, lk_lookup>>
    /\ UNCHANGED notLookupVars

\* the test that admits an instance to the output
azure_has_pricing(pricing) == pricing # Null /\ Positive(pricing.on_demand)

\* one pass of the loop over instance_details.items()
\* the end of a pass of the loop over instance_details.items(): the instance is
\* kept when a price was found for it
azure_priced_instance(details, gpu_info, pricing, region) ==
    IF azure_has_pricing(pricing)
    THEN Returned(<<
            ("Instance Type" :> Get(details, "instanceName", Str(pricing.original_name)))
            @@ ("vCPUs" :> Get(details, "cores", Zero))
            @@ ("Memory (GB)" :> Get(details, "ram", Zero))
            @@ ("GPU Type" :> Str(gpu_info.gpu_type))
            @@ ("GPU Count" :> gpu_info.gpu_count)
            @@ ("On-Demand Price ($/hr)" :> pricing.on_demand)
            @@ ("Spot Price ($/hr)" :> pricing.spot)
            @@ ("Region" :> Str(region)) >>)
    ELSE Returned(<<>>)

\* the pass after parse_gpu_info(details['gpu']); an exception of the parse
\* leaves the loop
azure_parsed_instance(entry, gpu_info, pricing_lookup, region) ==
    IF gpu_info.raised
    THEN gpu_info
    ELSE IF gpu_info.value = Null
    THEN Returned(<<>>)
    ELSE azure_priced_instance(
             entry.details, gpu_info.value,
             azure_find_pricing(pricing_lookup, normalize_instance_name(entry.key)), region)

\* one pass of the loop over instance_details.items()
azure_gpu_instance(entry, pricing_lookup, region) ==
    IF "gpu" \notin DOMAIN entry.details
    THEN Returned(<<>>)
    ELSE azure_parsed_instance(
             entry,
             IF IsStr(entry.details.gpu) THEN parse_gpu_info(entry.details.gpu.s)
             ELSE Returned(Null),
             pricing_lookup, region)

\* get_gpu_instances after its two downloads
azure_join(pricing_data, instance_details, region) ==
    IF instance_details.raised
    THEN instance_details
    ELSE IF pricing_data.value = <<>> \/ instance_details.value = <<>>
    THEN Returned(<<>>)
    ELSE LET Each(entry) ==
                 azure_gpu_instance(
                     entry, azure_pricing_lookup(pricing_data.value, Len(pricing_data.value)),
                     region)
         IN Collect(Each, instance_details.value)

azure_get_gpu_instances(region, world) ==
    azure_join(azure_get_vm_pricing_data(region, world), azure_get_instance_details(world),
               region)

azure_standardize_instance_data(instance) ==
    StandardRow(<<"A", "z", "u", "r", "e">>, instance["Region"].s, instance,
                instance["On-Demand Price ($/hr)"], instance["Spot Price ($/hr)"])

\* the loop of get_standardized_gpu_instances over what was found
azure_standardize_all(gpu_instances) ==
    IF gpu_instances.raised
    THEN gpu_instances
    ELSE Returned([i \in 1..Len(gpu_instances.value) |->
                      azure_standardize_instance_data(gpu_instances.value[i])])

azure_get_standardized_gpu_instances(region, world) ==
    azure_standardize_all(azure_get_gpu_instances(region, world))

AzureRegion == <<"w", "e", "s", "t", "u", "s", "2">>

AzureNC6Price ==
    [armSkuName |-> <<"S", "t", "a", "n", "d", "a", "r", "d", "_", "N", "C", "6">>, skuName |-> <<"N", "C", "6">>, retailPrice |-> Frac(9, 10),
     isPrimaryMeterRegion |-> TRUE]
AzurePriceItems ==
    { AzureNC6Price,
      [armSkuName |-> <<"S", "t", "a", "n", "d", "a", "r", "d", "_", "N", "C", "6">>, skuName |-> <<"N", "C", "6", " ", "S", "p", "o", "t">>, retailPrice |-> Frac(2, 10),
       isPrimaryMeterRegion |-> TRUE],
      \* listed with a price of 0
      [armSkuName |-> <<"S", "t", "a", "n", "d", "a", "r", "d", "_", "N", "V", "6">>, skuName |-> <<"N", "V", "6">>, retailPrice |-> Zero,
       isPrimaryMeterRegion |-> TRUE],
      [armSkuName |-> <<"S", "t", "a", "n", "d", "a", "r", "d", "_", "N", "C", "2", "4", "a", "d", "s", "_", "A", "1", "0", "0", "_", "v", "4">>, skuName |-> <<"N", "C", "2", "4", "a", "d", "s", " ", "A", "1", "0", "0", " ", "v", "4">>,
       retailPrice |-> Frac(367, 100), isPrimaryMeterRegion |-> TRUE],
      [armSkuName |-> <<"S", "t", "a", "n", "d", "a", "r", "d", "_", "N", "C", "6">>, skuName |-> <<"N", "C", "6">>, retailPrice |-> Num(5),
       isPrimaryMeterRegion |-> FALSE] }

AzureNC6 ==
    [key |-> <<"l", "i", "n", "u", "x", "-", "n", "c", "6", "-", "s", "t", "a", "n", "d", "a", "r", "d">>,
     details |-> [gpu |-> Str(<<"1", "X", " ", "K", "8", "0">>), instanceName |-> Str(<<"N", "C", "6">>),
                  cores |-> Num(6), ram |-> Num(56)]]
AzureDetails ==
    { AzureNC6,
      [key |-> <<"l", "i", "n", "u", "x", "-", "n", "c", "2", "4", "a", "d", "s", "a", "1", "0", "0", "v", "4", "-", "s", "t", "a", "n", "d", "a", "r", "d">>,
       details |-> [gpu |-> Str(<<"1", "X", " ", "A", "1", "0", "0">>), cores |-> Num(24), ram |-> Num(220)]],
      [key |-> <<"l", "i", "n", "u", "x", "-", "n", "v", "6", "-", "s", "t", "a", "n", "d", "a", "r", "d">>,
       details |-> [gpu |-> Str(<<"1", "X", " ", "M", "6", "0">>), instanceName |-> Str(<<"N", "V", "6">>),
                    cores |-> Num(6), ram |-> Num(56)]],
      \* no GPU
      [key |-> <<"l", "i", "n", "u", "x", "-", "d", "2", "-", "s", "t", "a", "n", "d", "a", "r", "d">>,
       details |-> [instanceName |-> Str(<<"D", "2">>), cores |-> Num(2), ram |-> Num(8)]],
      \* descriptors that are empty, count no GPU, divide by zero
      [AzureNC6 EXCEPT !.details.gpu = Str(<<>>)],
      [AzureNC6 EXCEPT !.details.gpu = Str(<<"0", "X", " ", "K", "8", "0">>)],
      [AzureNC6 EXCEPT !.details.gpu = Str(<<"1", "/", "0", "X", " ", "A", "1", "0">>)],
      \* "cores": null
      [AzureNC6 EXCEPT !.details.cores = Null] }

AzureWorlds ==
    [pricing_status : {"request_error"}, prices : {<<>>},
     details_status : {"ok"}, details : {<<AzureNC6>>}]
    \cup [pricing_status : {"ok"}, prices : SeqsUpTo(AzurePriceItems, MaxRecords),
          details_status : {"connect_error", "http_error"}, details : {<<>>}]
    \cup [pricing_status : {"ok"}, prices : SeqsUpTo(AzurePriceItems, MaxRecords),
          details_status : {"ok"}, details : SeqsUpTo(AzureDetails, MaxRecords)]

----------------------------------------------------------------------------
(* aws.py *)

\* a call that never returns
Hangs == [raised |-> FALSE, hangs |-> TRUE]
IsHang(outcome) == "hangs" \in DOMAIN outcome

RECURSIVE SumCounts(_)
SumCounts(gpus) == IF gpus = <<>> THEN Zero ELSE Plus(Head(gpus).Count, SumCounts(Tail(gpus)))

\* one pass of the loop over page['InstanceTypes']; VCpuInfo.DefaultVCpus and
\* MemoryInfo.SizeInMiB are written DefaultVCpus and SizeInMiB, GpuInfo.Gpus Gpus
aws_instance(instance) ==
    IF "Gpus" \notin DOMAIN instance \/ instance.Gpus = <<>>
    THEN Returned(<<>>)
    ELSE IF {"InstanceType", "DefaultVCpus", "SizeInMiB"} \ DOMAIN instance # {}
    THEN Raised("KeyError")
    ELSE Returned(<<
            ("Instance Type" :> instance.InstanceType)
            @@ ("vCPUs" :> instance.DefaultVCpus)
            @@ ("Memory (GB)" :> Frac(instance.SizeInMiB.n, 1024))
            @@ ("GPU Type" :> instance.Gpus[1].Name)
            @@ ("GPU Count" :> SumCounts(instance.Gpus)) >>)

\* boto3.client is called before the try; inside it every exception gives []
aws_get_instance_types_with_gpu(region, world) ==
    IF ~world.client_ok
    THEN Raised("NoCredentialsError")
    ELSE IF world.catalog_status # "ok"
    THEN Returned(<<>>)
    ELSE LET found == Collect(aws_instance, world.instances)
         IN IF found.raised THEN Returned(<<>>) ELSE found

RECURSIVE aws_price_loop(_, _, _)
aws_price_loop(region, st, r) ==
    LET after == OdpStep(region, st, r)
    IN IF after.returned THEN Returned(after.result) ELSE aws_price_loop(region, after, r)

\* get_on_demand_price when the pricing API gives the same answer r on every
\* attempt: without a price list the loop never ends
aws_get_on_demand_price(region, r) ==
    IF r.kind # "quote"
    THEN Hangs
    ELSE aws_price_loop(region, [price |-> Zero, retries |-> 0], r)

RECURSIVE SumSeq(_)
SumSeq(xs) == IF xs = <<>> THEN Zero ELSE Plus(Head(xs), SumSeq(Tail(xs)))

aws_get_spot_price_90d_average(region, spot) ==
    IF spot.status # "ok" \/ spot.prices = <<>>
    THEN Zero
    ELSE LET avg == Times(SumSeq(spot.prices), Frac(1, Len(spot.prices)))
         IN IF is_china_region(region) THEN Times(avg, CNY_TO_USD) ELSE avg

aws_standardize_instance_data(instance, region, world) ==
    LET on_demand_price == aws_get_on_demand_price(region, world.price_response)
    IN IF IsHang(on_demand_price)
       THEN Hangs
       ELSE Returned(<<StandardRow(<<"A", "W", "S">>, region, instance, on_demand_price.value,
                                   aws_get_spot_price_90d_average(region, world.spot))>>)

\* get_standardized_gpu_instances after the catalog was read
aws_standardize_all(gpu_instances, region, world) ==
    IF gpu_instances.raised
    THEN gpu_instances
    ELSE IF gpu_instances.value = <<>>
    THEN Returned(<<>>)
    \* every lookup of the call gets the same answer: the first one hangs, or none
    ELSE IF IsHang(aws_get_on_demand_price(region, world.price_response))
    THEN Hangs
    ELSE LET Each(instance) == aws_standardize_instance_data(instance, region, world)
         IN Collect(Each, gpu_instances.value)

aws_get_standardized_gpu_instances(region, world) ==
    aws_standardize_all(aws_get_instance_types_with_gpu(region, world), region, world)

AwsP3 ==
    [InstanceType |-> Str(<<"p", "3", ".", "2", "x", "l", "a", "r", "g", "e">>), DefaultVCpus |-> Num(8), SizeInMiB |-> Num(62464),
     Gpus |-> <<[Name |-> Str(<<"V", "1", "0", "0">>), Count |-> Num(1)]>>]
AwsInstances ==
    { AwsP3,
      [InstanceType |-> Str(<<"g", "4", "d", "n", ".", "1", "2", "x", "l", "a", "r", "g", "e">>), DefaultVCpus |-> Num(48),
       SizeInMiB |-> Num(196608), Gpus |-> <<[Name |-> Str(<<"T", "4">>), Count |-> Num(4)]>>],
      \* no GpuInfo
      [InstanceType |-> Str(<<"m", "5", ".", "l", "a", "r", "g", "e">>), DefaultVCpus |-> Num(2), SizeInMiB |-> Num(8192)],
      \* a GPU listed with Count 0
      [AwsP3 EXCEPT !.Gpus = <<[Name |-> Str(<<"V", "1", "0", "0">>), Count |-> Zero]>>],
      \* no VCpuInfo
      [InstanceType |-> Str(<<"p", "4", "d", ".", "2", "4", "x", "l", "a", "r", "g", "e">>), SizeInMiB |-> Num(1179648),
       Gpus |-> <<[Name |-> Str(<<"A", "1", "0", "0">>), Count |-> Num(8)]>>] }

AwsSpot == [status |-> "ok", prices |-> <<Frac(9, 10), Frac(11, 10)>>]
AwsSpots ==
    { [status |-> "error", prices |-> <<>>], [status |-> "ok", prices |-> <<>>], AwsSpot }

AwsWorlds ==
    [client_ok : {FALSE}, catalog_status : {"ok"}, instances : {<<AwsP3>>},
     price_response : {[kind |-> "quote", quote |-> Frac(306, 100)]}, spot : AwsSpots]
    \cup [client_ok : {TRUE}, catalog_status : {"error"}, instances : {<<>>},
          price_response : {[kind |-> "quote", quote |-> Frac(306, 100)]}, spot : AwsSpots]
    \cup [client_ok : {TRUE}, catalog_status : {"ok"},
          instances : SeqsUpTo(AwsInstances, MaxRecords),
          price_response : Responses, spot : AwsSpots]

----------------------------------------------------------------------------
(* gcp.py *)

gcp_get_zone_from_region(region) == region \o <<"-", "b">>

\* one machine type: a dict for each of its accelerators
gcp_machine(machine, zone) ==
    Returned([a \in 1..Len(machine.accelerators) |->
        ("Instance Type" :> machine.name)
        @@ ("vCPUs" :> machine.guest_cpus)
        @@ ("Memory (GB)" :> Frac(machine.memory_mb.n, 1024))
        @@ ("GPU Type" :>
              LET path == Split(machine.accelerators[a].guest_accelerator_type, <<"/">>)
              IN Str(path[Len(path)]))
        @@ ("GPU Count" :> machine.accelerators[a].guest_accelerator_count)
        @@ ("Zone" :> Str(zone))])

\* MachineTypesClient() is built before the try; the listing is inside it
gcp_get_instance_types_with_gpu(region, world) ==
    IF ~world.client_ok
    THEN Raised("DefaultCredentialsError")
    ELSE IF ~world.project
    THEN Raised("ValueError")
    ELSE IF world.list_status # "ok"
    THEN Returned(<<>>)
    ELSE LET Each(machine) == gcp_machine(machine, gcp_get_zone_from_region(region))
         IN Collect(Each, world.machines)

\* str() of a list of strings
RECURSIVE StrItems(_)
StrItems(items) ==
    IF items = <<>>
    THEN <<>>
    ELSE <<"'">> \o Head(items) \o <<"'">>
         \o (IF Len(items) > 1 THEN <<",", " ">> ELSE <<>>) \o StrItems(Tail(items))
StrList(items) == <<"[">> \o StrItems(items) \o <<"]">>

gcp_in_region(sku, region) == Contains(StrList(sku.service_regions), region)
gcp_is_spot(sku) == Contains(sku.description, <<"S", "p", "o", "t">>) \/ Contains(sku.category, <<"s", "p", "o", "t">>)
gcp_unit_price(tier) == Plus(Num(tier.units), Frac(tier.nanos, 1000000000))

\* the prices after the first loop over the SKUs (the machine's own price);
\* failed records the IndexError of pricing_info[0]
RECURSIVE gcp_instance_prices(_, _, _, _)
gcp_instance_prices(skus, n, instance_type, region) ==
    IF n = 0
    THEN [on_demand |-> Zero, spot |-> Zero, failed |-> FALSE]
    ELSE LET before == gcp_instance_prices(skus, n - 1, instance_type, region)
             sku == skus[n]
             keywords == Split(Lower(instance_type), <<"-">>)
             matches == /\ \A i \in 1..Len(keywords) :
                              Contains(Lower(sku.description), keywords[i])
                        /\ gcp_in_region(sku, region)
         IN IF before.failed \/ ~matches
            THEN before
            ELSE IF sku.pricing_info = <<>>
            THEN [before EXCEPT !.failed = TRUE]
            ELSE IF sku.pricing_info[1].tiered_rates = <<>>
            THEN before
            ELSE IF gcp_is_spot(sku)
            THEN [before EXCEPT !.spot = gcp_unit_price(sku.pricing_info[1].tiered_rates[1])]
            ELSE [before EXCEPT !.on_demand = gcp_unit_price(sku.pricing_info[1].tiered_rates[1])]

\* the prices after the second loop, which adds the GPUs' price
RECURSIVE gcp_gpu_prices(_, _, _, _, _, _)
gcp_gpu_prices(skus, n, start, gpu_type, gpu_count, region) ==
    IF n = 0
    THEN start
    ELSE LET before == gcp_gpu_prices(skus, n - 1, start, gpu_type, gpu_count, region)
             sku == skus[n]
             gpu_type_search == Replace(Replace(gpu_type, <<"n", "v", "i", "d", "i", "a", "-">>, <<>>), <<"-">>, <<" ">>)
             matches == /\ Contains(Lower(sku.description), <<"g", "p", "u">>)
                        /\ Contains(Lower(sku.description), Lower(gpu_type_search))
                        /\ gcp_in_region(sku, region)
         IN IF before.failed \/ ~matches
            THEN before
            ELSE IF sku.pricing_info = <<>>
            THEN [before EXCEPT !.failed = TRUE]
            ELSE IF sku.pricing_info[1].tiered_rates = <<>>
            THEN before
            ELSE LET gpu_price ==
                         Times(gcp_unit_price(sku.pricing_info[1].tiered_rates[1]), gpu_count)
                 IN IF gcp_is_spot(sku)
                    THEN [before EXCEPT !.spot = Plus(before.spot, gpu_price)]
                    ELSE [before EXCEPT !.on_demand = Plus(before.on_demand, gpu_price)]

\* CloudCatalogClient() is built before the try; inside it every exception
\* gives (0.0, 0.0). The SKUs come in one page.
\* what get_pricing_info returns after its two loops
gcp_prices_found(prices) ==
    IF prices.failed
    THEN Returned([on_demand |-> Zero, spot |-> Zero])
    ELSE Returned([on_demand |-> prices.on_demand, spot |-> prices.spot])

\* CloudCatalogClient() is built before the try; inside it every exception
\* gives (0.0, 0.0). The SKUs come in one page.
gcp_get_pricing_info(instance_type, gpu_type, gpu_count, region, world) ==
    IF ~world.billing_ok
    THEN Raised("DefaultCredentialsError")
    ELSE IF world.skus_status # "ok"
    THEN Returned([on_demand |-> Zero, spot |-> Zero])
    ELSE gcp_prices_found(
             gcp_gpu_prices(
                 world.skus, Len(world.skus),
                 gcp_instance_prices(world.skus, Len(world.skus), instance_type, region),
                 gpu_type, gpu_count, region))

\* the dict standardize_instance_data builds from the prices
gcp_standard_row(instance, region, prices) ==
    IF prices.raised
    THEN prices
    ELSE Returned(<<StandardRow(<<"G", "C", "P">>, region, instance, prices.value.on_demand,
                                prices.value.spot)>>)

gcp_standardize_instance_data(instance, region, world) ==
    gcp_standard_row(
        instance, region,
        gcp_get_pricing_info(instance["Instance Type"].s, instance["GPU Type"].s,
                             instance["GPU Count"], region, world))

\* the loop of get_standardized_gpu_instances over what was listed
gcp_standardize_all(gpu_instances, region, world) ==
    IF gpu_instances.raised
    THEN gpu_instances
    ELSE LET Each(instance) == gcp_standardize_instance_data(instance, region, world)
         IN Collect(Each, gpu_instances.value)

\* an entry point that does not verify the environment variable first
gcp_get_standardized_gpu_instances_unverified(region, world) ==
    gcp_standardize_all(gcp_get_instance_types_with_gpu(region, world), region, world)

gcp_get_standardized_gpu_instances(region, world) ==
    IF ~world.project
    THEN Returned(<<>>)
    ELSE gcp_standardize_all(gcp_get_instance_types_with_gpu(region, world), region, world)

GcpRegion == <<"u", "s", "-", "w", "e", "s", "t", "1">>

GcpA2 ==
    [name |-> Str(<<"a", "2", "-", "h", "i", "g", "h", "g", "p", "u", "-", "1", "g">>), guest_cpus |-> Num(12), memory_mb |-> Num(87040),
     accelerators |-> <<[guest_accelerator_type |-> <<"n", "v", "i", "d", "i", "a", "-", "t", "e", "s", "l", "a", "-", "a", "1", "0", "0">>,
                         guest_accelerator_count |-> Num(1)]>>]
GcpMachines ==
    { GcpA2,
      \* no accelerator
      [name |-> Str(<<"n", "1", "-", "s", "t", "a", "n", "d", "a", "r", "d", "-", "4">>), guest_cpus |-> Num(4), memory_mb |-> Num(15360),
       accelerators |-> <<>>],
      \* two accelerators listed for one machine type
      [name |-> Str(<<"g", "2", "-", "s", "t", "a", "n", "d", "a", "r", "d", "-", "4">>), guest_cpus |-> Num(4), memory_mb |-> Num(16384),
       accelerators |-> <<[guest_accelerator_type |-> <<"n", "v", "i", "d", "i", "a", "-", "l", "4">>,
                           guest_accelerator_count |-> Num(1)],
                          [guest_accelerator_type |-> <<"n", "v", "i", "d", "i", "a", "-", "l", "4", "-", "v", "w", "s">>,
                           guest_accelerator_count |-> Zero]>>] }

GcpA2Sku ==
    [description |-> <<"A", "2", " ", "I", "n", "s", "t", "a", "n", "c", "e", " ", "C", "o", "r", "e", " ", "h", "i", "g", "h", "g", "p", "u", " ", "1", "g">>, service_regions |-> <<<<"u", "s", "-", "w", "e", "s", "t", "1">>>>,
     category |-> <<"O", "n", "D", "e", "m", "a", "n", "d">>,
     pricing_info |-> <<[tiered_rates |-> <<[units |-> 0, nanos |-> 31000000]>>]>>]
GcpA100Sku ==
    [description |-> <<"N", "v", "i", "d", "i", "a", " ", "T", "e", "s", "l", "a", " ", "A", "1", "0", "0", " ", "G", "P", "U", " ", "r", "u", "n", "n", "i", "n", "g", " ", "i", "n", " ", "A", "m", "e", "r", "i", "c", "a", "s">>,
     service_regions |-> <<<<"u", "s", "-", "w", "e", "s", "t", "1">>, <<"u", "s", "-", "e", "a", "s", "t", "1">>>>,
     category |-> <<"O", "n", "D", "e", "m", "a", "n", "d">>,
     pricing_info |-> <<[tiered_rates |-> <<[units |-> 2, nanos |-> 930000000]>>]>>]
GcpSkus ==
    { GcpA2Sku, GcpA100Sku,
      [description |-> <<"S", "p", "o", "t", " ", "P", "r", "e", "e", "m", "p", "t", "i", "b", "l", "e", " ", "N", "v", "i", "d", "i", "a", " ", "T", "e", "s", "l", "a", " ", "A", "1", "0", "0", " ", "G", "P", "U">>,
       service_regions |-> <<<<"u", "s", "-", "w", "e", "s", "t", "1">>>>, category |-> <<"P", "r", "e", "e", "m", "p", "t", "i", "b", "l", "e">>,
       pricing_info |-> <<[tiered_rates |-> <<[units |-> 0, nanos |-> 880000000]>>]>>],
      \* a matching SKU without pricing info
      [description |-> <<"N", "v", "i", "d", "i", "a", " ", "L", "4", " ", "G", "P", "U">>, service_regions |-> <<<<"u", "s", "-", "w", "e", "s", "t", "1">>>>,
       category |-> <<"O", "n", "D", "e", "m", "a", "n", "d">>, pricing_info |-> <<>>] }

GcpWorlds ==
    [project : {FALSE}, client_ok : BOOLEAN, list_status : {"ok"}, machines : {<<GcpA2>>},
     billing_ok : {TRUE}, skus_status : {"ok"}, skus : {<<>>}]
    \cup [project : {TRUE}, client_ok : {FALSE}, list_status : {"ok"}, machines : {<<GcpA2>>},
          billing_ok : {TRUE}, skus_status : {"ok"}, skus : {<<>>}]
    \cup [project : {TRUE}, client_ok : {TRUE}, list_status : {"error"}, machines : {<<>>},
          billing_ok : {TRUE}, skus_status : {"ok"}, skus : {<<>>}]
    \cup [project : {TRUE}, client_ok : {TRUE}, list_status : {"ok"},
          machines : SeqsUpTo(GcpMachines, MaxRecords),
          billing_ok : {FALSE}, skus_status : {"ok"}, skus : {<<>>}]
    \cup [project : {TRUE}, client_ok : {TRUE}, list_status : {"ok"},
          machines : SeqsUpTo(GcpMachines, MaxRecords),
          billing_ok : {TRUE}, skus_status : {"error"}, skus : {<<>>}]
    \cup [project : {TRUE}, client_ok : {TRUE}, list_status : {"ok"},
          machines : SeqsUpTo(GcpMachines, MaxRecords),
          billing_ok : {TRUE}, skus_status : {"ok"}, skus : SeqsUpTo(GcpSkus, MaxRecords)]

----------------------------------------------------------------------------
(* One call of an adapter's get_standardized_gpu_instances *)

\* the module whose get_standardized_gpu_instances is called
Module(name) == [k |-> "module", name |-> name]

get_standardized_gpu_instances(module, region, world) ==
    CASE module.name = "aws" -> aws_get_standardized_gpu_instances(region, world)
      [] module.name = "azure" -> azure_get_standardized_gpu_instances(region, world)
      [] module.name = "gcp" -> gcp_get_standardized_gpu_instances(region, world)
      [] module.name = "ali" -> ali_get_standardized_gpu_instances(region, world)
      [] module.name = "tencent" -> tencent_get_standardized_gpu_instances(region, world)

TencentRegion == <<"n", "a", "-", "s", "i", "l", "i", "c", "o", "n", "v", "a", "l", "l", "e", "y">>

\* a module, a region and what the module's upstream answers
AdapterCalls ==
    [provider : {"aws"}, region : AwsRegions, world : AwsWorlds]
    \cup [provider : {"azure"}, region : {AzureRegion}, world : AzureWorlds]
    \cup [provider : {"gcp"}, region : {GcpRegion}, world : GcpWorlds]
    \cup [provider : {"ali"}, region : {AliRegion}, world : AliWorlds]
    \cup [provider : {"tencent"}, region : {TencentRegion}, world : TencentWorlds]

AdStart(calls, pc) ==
    /\ \E call \in calls :
          /\ ad_provider = call.provider
          /\ ad_region = call.region
          /\ ad_world = call.world
    /\ ad_pc = pc
    /\ ad_result = <<>>

AdIdle == AdStart({[provider |-> "none", region |-> <<>>, world |-> Null]}, "idle")

CallAdapter ==
    /\ ad_pc = "call"
    /\ \E outcome \in {get_standardized_gpu_instances(Module(ad_provider), ad_region,
                                                       ad_world)} :
          /\ ad_pc' = IF IsHang(outcome) THEN "hangs"
                      ELSE IF outcome.raised THEN "raised" ELSE "returned"
          /\ ad_result' = IF IsHang(outcome) THEN <<>>
                          ELSE IF outcome.raised THEN Str(outcome.exc) ELSE outcome.value
    /\ UNCHANGED <<ad_provider, ad_region, ad_world>>
    /\ UNCHANGED notAdVars

----------------------------------------------------------------------------
(* fetch_all.py *)

provider_map ==
    { [key |-> <<"a", "w", "s">>, module |-> Module("aws")],
      [key |-> <<"a", "z", "u", "r", "e">>, module |-> Module("azure")],
      [key |-> <<"g", "c", "p">>, module |-> Module("gcp")],
      [key |-> <<"a", "l", "i">>, module |-> Module("ali")],
      [key |-> <<"t", "e", "n", "c", "e", "n", "t">>, module |-> Module("tencent")] }

\* provider_map.get(provider.lower()): the module, or None
get_provider_module(provider) ==
    LET found == {entry \in provider_map : entry.key = Lower(provider)}
    IN IF found = {} THEN Null ELSE (CHOOSE entry \in found : TRUE).module

\* a pass whose except clause would discard what was collected before it
collect_instances_reset(collected, outcome) ==
    IF outcome.raised
    THEN <<>>
    ELSE IF outcome.value = <<>>
    THEN collected
    ELSE collected \o outcome.value

\* a pass that puts the instances in front of what was collected
collect_instances_prepend(collected, outcome) ==
    IF outcome.raised
    THEN collected
    ELSE IF outcome.value = <<>>
    THEN collected
    ELSE outcome.value \o collected

\* a pass that assigns the instances to all_data where the code extends it
collect_instances_assign(collected, outcome) ==
    IF outcome.raised
    THEN collected
    ELSE IF outcome.value = <<>>
    THEN collected
    ELSE outcome.value

\* the try block of one pass of the loop over provider_regions, with its except
\* clause: all_data after the pass, from all_data before it
collect_instances(collected, outcome) ==
    IF outcome.raised
    THEN collected
    ELSE IF outcome.value = <<>>
    THEN collected
    ELSE collected \o outcome.value

\* a row of pd.DataFrame(all_data) after the required columns were added and
\* selected: a key the dict lacks is null, a key that is no required column is gone
select_columns(row) ==
    [col \in Range(required_columns) |-> IF col \in DOMAIN row THEN row[col] ELSE Null]

\* the rows of the frame, with one row for each instance type only
RECURSIVE frame_rows_unique(_)
frame_rows_unique(collected) ==
    IF collected = <<>>
    THEN <<>>
    ELSE LET before == frame_rows_unique(SubSeq(collected, 1, Len(collected) - 1))
             row == select_columns(collected[Len(collected)])
         IN IF \E i \in 1..Len(before) : before[i]["Instance Type"] = row["Instance Type"]
            THEN before
            ELSE Append(before, row)

\* the rows of the frame fetch_prices returns
frame_rows(collected) == [i \in 1..Len(collected) |-> select_columns(collected[i])]

\* pd.DataFrame(): no column, no row
EmptyFrame == [columns |-> <<>>, rows |-> <<>>]

data_frame(collected) ==
    IF collected = <<>>
    THEN EmptyFrame
    ELSE [columns |-> required_columns, rows |-> frame_rows(collected)]

\* the printable ASCII characters in code order (the double quote, the
\* backslash and the backtick by name)
Ascii ==
    << " ", "!", "dquote", "#", "$", "%", "&", "'", "(", ")", "*", "+", ",", "-", ".", "/",
       "0", "1", "2", "3", "4", "5", "6", "7", "8", "9", ":", ";", "<", "=", ">", "?",
       "@", "A", "B", "C", "D", "E", "F", "G", "H", "I", "J", "K", "L", "M", "N", "O",
       "P", "Q", "R", "S", "T", "U", "V", "W", "X", "Y", "Z", "[", "backslash", "]", "^", "_",
       "backtick", "a", "b", "c", "d", "e", "f", "g", "h", "i", "j", "k", "l", "m", "n", "o",
       "p", "q", "r", "s", "t", "u", "v", "w", "x", "y", "z", "{", "|", "}", "~" >>
Ord(c) == 31 + CHOOSE i \in 1..Len(Ascii) : Ascii[i] = c

\* a < b for two str
RECURSIVE StrLess(_, _)
StrLess(a, b) ==
    IF b = <<>>
    THEN FALSE
    ELSE IF a = <<>>
    THEN TRUE
    ELSE IF Head(a) = Head(b)
    THEN StrLess(Tail(a), Tail(b))
    ELSE Ord(Head(a)) < Ord(Head(b))

\* the order sort_values gives one key column: str ascending, nulls last
CellLess(x, y) ==
    IF x = Null THEN FALSE
    ELSE IF y = Null THEN TRUE
    ELSE StrLess(x.s, y.s)

\* the order of sort_values('Instance Type'), the key of the adapters' own reports
KeyLessTypeOnly(a, b) == CellLess(a["Instance Type"], b["Instance Type"])

\* row a sorts before row b under ['Provider', 'Instance Type']
KeyLess(a, b) ==
    \/ CellLess(a["Provider"], b["Provider"])
    \/ /\ a["Provider"] = b["Provider"]
       /\ CellLess(a["Instance Type"], b["Instance Type"])

\* df.sort_values(['Provider', 'Instance Type']): rows with equal keys keep their order
RECURSIVE sort_values(_)
sort_values(rows) ==
    IF rows = <<>>
    THEN <<>>
    ELSE LET sorted == sort_values(SubSeq(rows, 1, Len(rows) - 1))
             row == rows[Len(rows)]
             p == Cardinality({i \in 1..Len(sorted) : ~KeyLess(row, sorted[i])})
         IN SubSeq(sorted, 1, p) \o <<row>> \o SubSeq(sorted, p + 1, Len(sorted))

DigitChars == <<"0", "1", "2", "3", "4", "5", "6", "7", "8", "9">>

RECURSIVE IntStr(_)
IntStr(n) ==
    IF n < 10
    THEN <<DigitChars[n + 1]>>
    ELSE IntStr(n \div 10) \o <<DigitChars[(n % 10) + 1]>>

RECURSIVE Pow10(_)
Pow10(k) == IF k = 0 THEN 1 ELSE 10 * Pow10(k - 1)

RECURSIVE ZeroPad(_, _)
ZeroPad(s, width) == IF Len(s) >= width THEN s ELSE ZeroPad(<<"0">> \o s, width)

\* '{:.<places>f}'.format(x) for x >= 0: rounded to the nearest, ties to even
Format(x, places) ==
    LET scaled == x.n * Pow10(places)
        q == scaled \div x.d
        r == scaled % x.d
        rounded == IF 2 * r > x.d \/ (2 * r = x.d /\ q % 2 = 1) THEN q + 1 ELSE q
    IN IntStr(rounded \div Pow10(places)) \o <<".">>
       \o ZeroPad(IntStr(rounded % Pow10(places)), places)

\* pd.to_numeric(column, errors='coerce').fillna(0) for one cell: a number stays,
\* a str of digits is read, anything else is NaN and becomes 0
to_numeric_fillna(x) ==
    IF IsNum(x) THEN x
    ELSE IF x # Null /\ IsStr(x) /\ AllDigits(x.s) THEN Num(PyInt(x.s))
    ELSE Zero

format_row(row) ==
    [row EXCEPT !["Memory (GB)"] = Str(Format(to_numeric_fillna(@), 1)),
                !["On-Demand Price ($/hr)"] = Str(Format(to_numeric_fillna(@), 4)),
                !["Spot Price ($/hr)"] = Str(Format(to_numeric_fillna(@), 4))]

\* the frame main hands to to_csv
formatted(frame) ==
    LET sorted == sort_values(frame.rows)
    IN [columns |-> frame.columns, rows |-> [i \in 1..Len(sorted) |-> format_row(sorted[i])]]

\* what the upstream of a module answers during a run of fetch_prices
AwsSample ==
    { [client_ok |-> FALSE, catalog_status |-> "ok", instances |-> <<AwsP3>>,
       price_response |-> [kind |-> "quote", quote |-> Frac(306, 100)], spot |-> AwsSpot],
      [client_ok |-> TRUE, catalog_status |-> "error", instances |-> <<>>,
       price_response |-> [kind |-> "quote", quote |-> Frac(306, 100)], spot |-> AwsSpot],
      [client_ok |-> TRUE, catalog_status |-> "ok", instances |-> <<AwsP3>>,
       price_response |-> [kind |-> "quote", quote |-> Frac(306, 100)], spot |-> AwsSpot],
      [client_ok |-> TRUE, catalog_status |-> "ok", instances |-> <<AwsP3>>,
       price_response |-> [kind |-> "quote", quote |-> Zero], spot |-> AwsSpot],
      [client_ok |-> TRUE, catalog_status |-> "ok", instances |-> <<AwsP3>>,
       price_response |-> [kind |-> "empty"], spot |-> AwsSpot] }
AzureSample ==
    { [pricing_status |-> "request_error", prices |-> <<>>,
       details_status |-> "ok", details |-> <<AzureNC6>>],
      [pricing_status |-> "ok", prices |-> <<AzureNC6Price>>,
       details_status |-> "connect_error", details |-> <<>>],
      [pricing_status |-> "ok", prices |-> <<AzureNC6Price>>,
       details_status |-> "ok", details |-> <<AzureNC6>>],
      [pricing_status |-> "ok", prices |-> <<AzureNC6Price>>,
       details_status |-> "ok", details |-> <<[AzureNC6 EXCEPT !.details.cores = Null]>>] }
GcpSample ==
    { [project |-> FALSE, client_ok |-> TRUE, list_status |-> "ok", machines |-> <<GcpA2>>,
       billing_ok |-> TRUE, skus_status |-> "ok", skus |-> <<>>],
      [project |-> TRUE, client_ok |-> TRUE, list_status |-> "ok", machines |-> <<GcpA2>>,
       billing_ok |-> FALSE, skus_status |-> "ok", skus |-> <<>>],
      [project |-> TRUE, client_ok |-> TRUE, list_status |-> "ok", machines |-> <<GcpA2>>,
       billing_ok |-> TRUE, skus_status |-> "ok", skus |-> <<>>],
      [project |-> TRUE, client_ok |-> TRUE, list_status |-> "ok", machines |-> <<GcpA2>>,
       billing_ok |-> TRUE, skus_status |-> "ok", skus |-> <<GcpA2Sku, GcpA100Sku>>] }
AliSample ==
    { [pricing_file |-> "missing", has_pricing_info |-> FALSE, pricing |-> <<>>,
       types_file |-> "ok", types |-> <<AliGood>>],
      [pricing_file |-> "ok", has_pricing_info |-> TRUE, pricing |-> <<AliGn6iPrice>>,
       types_file |-> "missing", types |-> <<>>],
      [pricing_file |-> "ok", has_pricing_info |-> TRUE, pricing |-> <<AliGn6iPrice>>,
       types_file |-> "ok", types |-> <<AliGood>>],
      [pricing_file |-> "ok", has_pricing_info |-> TRUE, pricing |-> <<AliGn6iPrice>>,
       types_file |-> "ok", types |-> <<[AliGood EXCEPT !.GPUSpec = Null]>>] }
TencentSample ==
    { [transport |-> "request_error", has_response |-> FALSE, quota |-> <<>>],
      [transport |-> "ok", has_response |-> TRUE, quota |-> <<TencentGood>>],
      [transport |-> "ok", has_response |-> TRUE,
       quota |-> <<TencentGood,
                   [TencentGood EXCEPT !.GPUDesc = Str(<<"N", "V", "I", "D", "I", "A", " ", "T", "4">>)]>>],
      [transport |-> "ok", has_response |-> TRUE,
       quota |-> <<[TencentGood EXCEPT !.Cpu = Null]>>] }

SampleWorlds(module) ==
    CASE module.name = "aws" -> AwsSample
      [] module.name = "azure" -> AzureSample
      [] module.name = "gcp" -> GcpSample
      [] module.name = "ali" -> AliSample
      [] module.name = "tencent" -> TencentSample

\* the list in main
MainPairs ==
    << <<<<"A", "W", "S">>, <<"u", "s", "-", "w", "e", "s", "t", "-", "2">>>>, <<<<"A", "z", "u", "r", "e">>, AzureRegion>>, <<<<"G", "C", "P">>, GcpRegion>>,
       <<<<"A", "l", "i">>, AliRegion>>, <<<<"T", "e", "n", "c", "e", "n", "t">>, TencentRegion>> >>

\* the pairs of other lists: those of main, a name in another case, an unknown name
Pairs ==
    Range(MainPairs) \cup { <<<<"t", "e", "n", "c", "e", "n", "t">>, TencentRegion>>, <<<<"O", "r", "a", "c", "l", "e">>, <<"u", "s", "-", "p", "h", "o", "e", "n", "i", "x", "-", "1">>>> }

\* the longest list of pairs, the one of main apart
MaxPairs == 2

RunStart(lists, pc) ==
    /\ provider_regions \in lists
    /\ run_pc = pc
    /\ idx = 1
    /\ all_data = <<>>
    /\ outcomes = <<>>
    /\ df = Null
    /\ written = Null

RunIdle == RunStart({<<>>}, "idle")

\* what a pass of the loop did: the pair, whether the adapter was called,
\* whether the call raised or never came back, and the rows it returned
Pass(pair, called, outcome) ==
    [pair |-> pair, called |-> called,
     hangs |-> IsHang(outcome),
     raised |-> ~IsHang(outcome) /\ outcome.raised,
     rows |-> IF ~IsHang(outcome) /\ ~outcome.raised THEN outcome.value ELSE <<>>]

\* a pass for a supported provider: the call of the module's adapter, the
\* try block around it
FetchFrom(module, pair) ==
    \E world \in SampleWorlds(module) :
       \E outcome \in {get_standardized_gpu_instances(module, pair[2], world)} :
          /\ outcomes' = Append(outcomes, Pass(pair, TRUE, outcome))
          /\ IF IsHang(outcome)
             THEN /\ run_pc' = "hangs"
                  /\ UNCHANGED <<idx, all_data>>
             ELSE /\ all_data' = collect_instances(all_data, outcome)
                  /\ idx' = idx + 1
                  /\ UNCHANGED run_pc

\* one pass of `for provider, region in provider_regions`
FetchPair ==
    /\ run_pc = "loop"
    /\ idx <= Len(provider_regions)
    /\ IF get_provider_module(provider_regions[idx][1]) = Null
       THEN /\ outcomes' = Append(outcomes, Pass(provider_regions[idx], FALSE, Returned(<<>>)))
            /\ idx' = idx + 1
            /\ UNCHANGED <<run_pc, all_data>>
       ELSE FetchFrom(get_provider_module(provider_regions[idx][1]), provider_regions[idx])
    /\ UNCHANGED <<provider_regions, df, written>>
    /\ UNCHANGED notRunVars

\* the rest of fetch_prices, after the loop
ReturnFrame ==
    /\ run_pc = "loop"
    /\ idx > Len(provider_regions)
    /\ df' = data_frame(all_data)
    /\ run_pc' = "returned"
    /\ UNCHANGED <<provider_regions, idx, all_data, outcomes, written>>
    /\ UNCHANGED notRunVars

\* main after fetch_prices returned: nothing is written for an empty frame
MainWrite ==
    /\ run_pc = "returned"
    /\ IF df.rows = <<>>
       THEN run_pc' = "exit" /\ UNCHANGED written
       ELSE run_pc' = "written" /\ written' = formatted(df)
    /\ UNCHANGED <<provider_regions, idx, all_data, outcomes, df>>
    /\ UNCHANGED notRunVars

----------------------------------------------------------------------------
(* Specifications *)

OdpIdle == OdpStart({<<>>}, "idle")

\* a call of azure.parse_gpu_info
ParseInit == ParseCall /\ OdpIdle /\ AdIdle /\ RunIdle /\ NormIdle /\ LookupIdle
ParseNext == CallParse
SpecParse == ParseInit /\ [][ParseNext]_vars

\* a call of aws.get_on_demand_price
OdpInit == OdpStart(AwsRegions, "client") /\ ParseIdle /\ AdIdle /\ RunIdle /\ NormIdle /\ LookupIdle
OdpNext == OdpCreateClient \/ OdpAttempt
SpecPrice == OdpInit /\ [][OdpNext]_vars
\* the call is not suspended for ever
FairSpecPrice == SpecPrice /\ WF_vars(OdpNext)

\* a call of one adapter's get_standardized_gpu_instances
AdInit == AdStart(AdapterCalls, "call") /\ ParseIdle /\ OdpIdle /\ RunIdle /\ NormIdle /\ LookupIdle
AdNext == CallAdapter
SpecAdapter == AdInit /\ [][AdNext]_vars

\* two calls of azure.normalize_instance_name
NormInit == NormStart(SkuNames, "call") /\ ParseIdle /\ OdpIdle /\ AdIdle /\ RunIdle /\ LookupIdle
NormNext == CallNormalize
SpecNormalize == NormInit /\ [][NormNext]_vars

\* the price lookup of azure.get_gpu_instances for one instance
LookupInit ==
    /\ LookupStart(SeqsUpTo(LookupPriceItems, MaxSkus), LookupKeys, "build")
    /\ ParseIdle /\ OdpIdle /\ AdIdle /\ RunIdle /\ NormIdle
LookupNext == BuildLookup \/ FindPricing
SpecLookup == LookupInit /\ [][LookupNext]_vars

\* fetch_prices on a list of pairs, then the rest of main
Init ==
    /\ RunStart(SeqsUpTo(Pairs, MaxPairs) \cup {MainPairs}, "loop")
    /\ ParseIdle /\ OdpIdle /\ AdIdle /\ NormIdle /\ LookupIdle
Next == FetchPair \/ ReturnFrame \/ MainWrite
Spec == Init /\ [][Next]_vars

----------------------------------------------------------------------------
(* Properties of fetch_all.fetch_prices and fetch_all.main (Spec) *)

\* the rows of the passes whose adapter returned, in the order of the passes
RECURSIVE RowsReturned(_)
RowsReturned(passes) ==
    IF passes = <<>>
    THEN <<>>
    ELSE RowsReturned(SubSeq(passes, 1, Len(passes) - 1))
         \o (IF passes[Len(passes)].raised THEN <<>> ELSE passes[Len(passes)].rows)

\* C1: a pair whose adapter call raises contributes zero rows, the rows of
\* every other pair, before or after it, are what they would be without it,
\* and the run goes on to the remaining pairs: all_data is always the rows of
\* the passes that returned, a pass that raises leaves all_data as it was and
\* moves the loop to the next pair, and fetch_prices returns only after a pass
\* for every pair.
C1_CollectedIsReturned ==
    /\ all_data = RowsReturned(outcomes)
    /\ run_pc \in {"returned", "exit", "written"} => Len(outcomes) = Len(provider_regions)
C1_RaisingPass ==
    (Len(outcomes') = Len(outcomes) + 1 /\ outcomes'[Len(outcomes')].raised) =>
        (all_data' = all_data /\ idx' = idx + 1 /\ run_pc' = "loop")
C1_RaisingPairSkipped == [](C1_CollectedIsReturned) /\ [][C1_RaisingPass]_vars

\* a pair that raised between two pairs that gave rows, and fetch_prices returned
C1_Witness ==
    /\ run_pc = "returned"
    /\ \E j \in 1..Len(outcomes) :
          /\ outcomes[j].raised
          /\ \E i \in 1..(j - 1) : outcomes[i].rows # <<>>
          /\ \E k \in (j + 1)..Len(outcomes) : outcomes[k].rows # <<>>

RECURSIVE CountReturned(_)
CountReturned(passes) ==
    IF passes = <<>>
    THEN 0
    ELSE CountReturned(Tail(passes))
         + (IF Head(passes).called /\ ~Head(passes).raised /\ ~Head(passes).hangs
            THEN Len(Head(passes).rows) ELSE 0)

\* C3: the table fetch_prices returns has as many rows as the adapters that
\* returned gave together; rows are not deduplicated, also when the same
\* instance type comes twice.
C3_RowCountIsSum ==
    run_pc \in {"returned", "exit", "written"} => Len(df.rows) = CountReturned(outcomes)

\* the returned table has two rows with one instance type
C3_Witness ==
    /\ run_pc = "returned"
    /\ \E i, j \in 1..Len(df.rows) :
          i < j /\ df.rows[i]["Instance Type"] = df.rows[j]["Instance Type"]

NoNullCell(frame) ==
    \A i \in 1..Len(frame.rows) : \A col \in Range(required_columns) :
       frame.rows[i][col] # Null

\* C4: every row of the table fetch_prices returns, and of the table main
\* writes, has a non-null value in each of the nine canonical fields.
C4_NoNullField ==
    /\ run_pc \in {"returned", "exit", "written"} => NoNullCell(df)
    /\ run_pc = "written" => NoNullCell(written)

\* C12: when no pair contributes a row, fetch_prices and main do not fail and
\* main still emits the table, with the nine-column header and no data row.
C12_EmptyTableEmitted ==
    (run_pc \in {"exit", "written"} /\ all_data = <<>>) =>
        /\ run_pc = "written"
        /\ written.columns = required_columns
        /\ written.rows = <<>>

\* C13: whenever fetch_prices returns a table, its columns are the nine
\* canonical columns in their order and nothing else, and it has one row for
\* each standardized instance collected.
C13_ExactColumns ==
    run_pc \in {"returned", "exit", "written"} =>
        /\ df.columns = required_columns
        /\ Len(df.rows) = Len(all_data)
        /\ \A i \in 1..Len(df.rows) : DOMAIN df.rows[i] = Range(required_columns)

\* (Provider, Instance Type) of row a is less than or equal to that of row b
\* under case-sensitive string comparison
SortKeyLeq(a, b) ==
    /\ IsStr(a["Provider"]) /\ IsStr(b["Provider"])
    /\ IsStr(a["Instance Type"]) /\ IsStr(b["Instance Type"])
    /\ \/ StrLess(a["Provider"].s, b["Provider"].s)
       \/ /\ a["Provider"].s = b["Provider"].s
          /\ \/ a["Instance Type"].s = b["Instance Type"].s
             \/ StrLess(a["Instance Type"].s, b["Instance Type"].s)

\* s and t hold the same elements, each as many times
SameBag(s, t) ==
    /\ Len(s) = Len(t)
    /\ \A x \in Range(s) \cup Range(t) :
          Cardinality({i \in 1..Len(s) : s[i] = x}) = Cardinality({i \in 1..Len(t) : t[i] = x})

PassOutcome(pass) == IF pass.raised THEN Raised("Exception") ELSE Returned(pass.rows)

\* all_data after the passes, taken in the order given
RECURSIVE CollectAll(_)
CollectAll(passes) ==
    IF passes = <<>>
    THEN <<>>
    ELSE collect_instances(CollectAll(SubSeq(passes, 1, Len(passes) - 1)),
                           PassOutcome(passes[Len(passes)]))

\* the adapter of a pair gave the same answer each time it was called
SameAnswers ==
    \A i, j \in 1..Len(outcomes) :
       outcomes[i].pair = outcomes[j].pair =>
           (outcomes[i].raised = outcomes[j].raised /\ outcomes[i].rows = outcomes[j].rows)

\* C18: provided each adapter returns the same rows for the same region whenever
\* it is called, the rows fetch_prices returns are the same multiset for every
\* permutation of provider_regions.
C18_OrderIndependent ==
    (run_pc = "returned" /\ SameAnswers) =>
        \A f \in Permutations(1..Len(outcomes)) :
           SameBag(data_frame(CollectAll([i \in 1..Len(outcomes) |-> outcomes[f[i]]])).rows,
                   df.rows)

\* two pairs gave different rows and a third raised
C18_Witness ==
    /\ run_pc = "returned" /\ SameAnswers
    /\ \E i, j, k \in 1..Len(outcomes) :
          /\ outcomes[i].rows # <<>> /\ outcomes[j].rows # <<>>
          /\ outcomes[i].rows # outcomes[j].rows
          /\ outcomes[k].raised

\* the provider names fetch_prices supports, in any letter case
SupportedProvider(provider) ==
    Lower(provider) \in { <<"a", "w", "s">>, <<"a", "z", "u", "r", "e">>, <<"g", "c", "p">>, <<"a", "l", "i">>,
                          <<"t", "e", "n", "c", "e", "n", "t">> }

\* C20: fetch_prices takes the pairs in list order and calls the adapter of each
\* supported pair once, whatever the earlier pairs did; names are resolved
\* without regard to case; for an unsupported name no adapter is called and no
\* row is contributed. The i-th pass is for the i-th pair, it calls the adapter
\* exactly when the name is supported, fetch_prices returns after a pass for
\* every pair, and no pass keeps a later supported pair from its call.
C20_EachPairOnceInOrder ==
    /\ Len(outcomes) <= Len(provider_regions)
    /\ \A i \in 1..Len(outcomes) :
          /\ outcomes[i].pair = provider_regions[i]
          /\ outcomes[i].called = SupportedProvider(provider_regions[i][1])
          /\ ~outcomes[i].called => outcomes[i].rows = <<>>
    /\ run_pc \in {"returned", "exit", "written"} => Len(outcomes) = Len(provider_regions)
    /\ run_pc = "hangs" =>
          \A k \in (Len(outcomes) + 1)..Len(provider_regions) :
             ~SupportedProvider(provider_regions[k][1])

\* the rows the pass that a step made gave, none when the step made no pass
RowsOfStep ==
    IF Len(outcomes') = Len(outcomes) + 1 THEN outcomes'[Len(outcomes')].rows ELSE <<>>

\* C21: the collection of fetch_prices is append-only: after each pass it is the
\* collection before the pass followed by the rows of the pass, in the order
\* the adapter returned them; no step removes, reorders or changes a collected
\* row, so the returned table lists the rows in pair order, then adapter order,
\* with the values the adapters produced.
C21_Appended == all_data' = all_data \o RowsOfStep
C21_TableInOrder ==
    run_pc \in {"returned", "exit", "written"} =>
        /\ Len(df.rows) = Len(RowsReturned(outcomes))
        /\ \A i \in 1..Len(df.rows) : \A col \in Range(required_columns) :
              df.rows[i][col] = RowsReturned(outcomes)[i][col]
C21_AppendOnly == [](C21_TableInOrder) /\ [][C21_Appended]_vars

\* the table holds the different rows of two pairs
C21_Witness ==
    /\ run_pc = "returned"
    /\ \E i, j \in 1..Len(outcomes) :
          /\ i < j
          /\ outcomes[i].rows # <<>> /\ outcomes[j].rows # <<>>
          /\ outcomes[i].rows[1]["Provider"] # outcomes[j].rows[1]["Provider"]
          /\ df.rows[1]["Provider"] = outcomes[i].rows[1]["Provider"]

----------------------------------------------------------------------------
(* Properties of the adapters' get_standardized_gpu_instances (SpecAdapter) *)

\* C2: get_standardized_gpu_instances never raises, for every adapter, region
\* and upstream answer: a call that is over has returned, and it returned the
\* empty sequence when the upstream failed.
UpstreamFailed ==
    CASE ad_provider = "aws" -> ~ad_world.client_ok \/ ad_world.catalog_status # "ok"
      [] ad_provider = "azure" ->
            ad_world.pricing_status # "ok" \/ ad_world.details_status # "ok"
      [] ad_provider = "gcp" ->
            ~ad_world.project \/ ~ad_world.client_ok \/ ad_world.list_status # "ok"
      [] ad_provider = "ali" ->
            ad_world.pricing_file # "ok" \/ ad_world.types_file # "ok"
      [] ad_provider = "tencent" -> ad_world.transport # "ok" \/ ~ad_world.has_response
      [] OTHER -> FALSE
C2_NeverRaises ==
    ad_pc \in {"returned", "raised"} =>
        /\ ad_pc = "returned"
        /\ UpstreamFailed => ad_result = <<>>

\* the upstream answered and every record of its catalog is well formed
CatalogReadable ==
    CASE ad_provider = "aws" ->
            /\ ad_world.client_ok /\ ad_world.catalog_status = "ok"
            /\ \A i \in 1..Len(ad_world.instances) :
                  {"InstanceType", "DefaultVCpus", "SizeInMiB"} \subseteq
                      DOMAIN ad_world.instances[i]
      [] ad_provider = "azure" ->
            /\ ad_world.pricing_status = "ok" /\ ad_world.details_status = "ok"
            /\ azure_get_vm_pricing_data(ad_region, ad_world).value # <<>>
            /\ \A i \in 1..Len(ad_world.details) :
                  "gpu" \in DOMAIN ad_world.details[i].details =>
                      /\ IsStr(ad_world.details[i].details.gpu)
                      /\ parse_gpu_info(ad_world.details[i].details.gpu.s) \notin
                             {Returned(Null), Raised("ZeroDivisionError"),
                              Raised("EvalError")}
      [] ad_provider = "tencent" ->
            /\ ad_world.transport = "ok" /\ ad_world.has_response
            /\ \A i \in 1..Len(ad_world.quota) : ~tencent_instance(ad_world.quota[i]).raised
      [] OTHER -> FALSE

\* the GPU instances the catalog lists
GpuInstanceCount ==
    CASE ad_provider = "aws" ->
            Cardinality({i \in 1..Len(ad_world.instances) :
                            /\ "Gpus" \in DOMAIN ad_world.instances[i]
                            /\ ad_world.instances[i].Gpus # <<>>})
      [] ad_provider = "azure" ->
            Cardinality({i \in 1..Len(ad_world.details) :
                            "gpu" \in DOMAIN ad_world.details[i].details})
      [] ad_provider = "tencent" ->
            Cardinality({i \in 1..Len(ad_world.quota) :
                            Positive(Get(ad_world.quota[i], "Gpu", Zero))})
      [] OTHER -> 0

\* C5: an instance for which no price is found is still emitted, with
\* On-Demand Price 0.0; no adapter drops an instance for its price: when the
\* catalog of aws, azure or tencent is readable, the call returns a row for
\* every GPU instance of the catalog.
C5_UnpricedStillEmitted ==
    (ad_pc = "returned" /\ CatalogReadable) => Len(ad_result) = GpuInstanceCount

\* C6: every row an adapter returns has GPU Count > 0.
C6_PositiveGpuCount ==
    ad_pc = "returned" =>
        \A i \in 1..Len(ad_result) :
           IsNum(ad_result[i]["GPU Count"]) /\ Positive(ad_result[i]["GPU Count"])

\* the instance types of the catalog's records that are well-formed GPU records
WellFormedTypes ==
    CASE ad_provider = "aws" ->
            {aws_instance(r).value[1]["Instance Type"] :
                r \in {q \in Range(ad_world.instances) :
                          ~aws_instance(q).raised /\ aws_instance(q).value # <<>>}}
      [] ad_provider = "tencent" ->
            {tencent_instance(r).value[1]["Instance Type"] :
                r \in {q \in Range(ad_world.quota) :
                          ~tencent_instance(q).raised /\ tencent_instance(q).value # <<>>}}
      [] OTHER -> {}

\* C11: a record of the response that is malformed or lacks an expected key is
\* the only one skipped: when the upstream of aws or tencent answered, the call
\* returns, and it returns a row for every well-formed GPU record of the
\* response, before or after a malformed one.
C11_MalformedRecordSkipped ==
    (ad_pc \in {"returned", "raised"} /\ ad_provider \in {"aws", "tencent"} /\ ~UpstreamFailed) =>
        /\ ad_pc = "returned"
        /\ \A t \in WellFormedTypes :
              \E i \in 1..Len(ad_result) : ad_result[i]["Instance Type"] = t

\* C15: every row an adapter returns has a non-empty Instance Type string.
C15_NonEmptyInstanceType ==
    ad_pc = "returned" =>
        \A i \in 1..Len(ad_result) :
           IsStr(ad_result[i]["Instance Type"]) /\ ad_result[i]["Instance Type"].s # <<>>

\* the Provider constant of each adapter
ProviderConstant ==
    CASE ad_provider = "aws" -> <<"A", "W", "S">>
      [] ad_provider = "azure" -> <<"A", "z", "u", "r", "e">>
      [] ad_provider = "gcp" -> <<"G", "C", "P">>
      [] ad_provider = "ali" -> <<"A", "l", "i", "b", "a", "b", "a">>
      [] ad_provider = "tencent" -> <<"T", "e", "n", "c", "e", "n", "t">>
      [] OTHER -> <<>>
ProviderConstants ==
    { <<"A", "W", "S">>, <<"A", "z", "u", "r", "e">>, <<"G", "C", "P">>, <<"A", "l", "i", "b", "a", "b", "a">>,
      <<"T", "e", "n", "c", "e", "n", "t">> }

\* C16: every row returned by an adapter carries the adapter's Provider constant
\* and the region argument, unmodified, as Region; hence every row of the table
\* fetch_prices makes of these rows has a Provider among the five constants.
C16_ProviderAndRegion ==
    ad_pc = "returned" =>
        /\ \A i \in 1..Len(ad_result) :
              /\ ad_result[i]["Provider"] = Str(ProviderConstant)
              /\ ad_result[i]["Region"] = Str(ad_region)
        /\ \A i \in 1..Len(data_frame(ad_result).rows) :
              /\ IsStr(data_frame(ad_result).rows[i]["Provider"])
              /\ data_frame(ad_result).rows[i]["Provider"].s \in ProviderConstants

\* azure returned rows, whose Region went through the instance dict
C16_Witness == ad_pc = "returned" /\ ad_provider = "azure" /\ Len(ad_result) >= 2

\* C19: no two rows of one call's output share an Instance Type, also when the
\* catalog lists several accelerators for a machine type or repeats an instance.
C19_OneRowPerInstanceType ==
    ad_pc = "returned" =>
        \A i, j \in 1..Len(ad_result) :
           i < j => ad_result[i]["Instance Type"] # ad_result[j]["Instance Type"]

\* the '::' parts of the i-th key of the pricing feed
KeyParts(i) == Split(ad_world.pricing[i].key, <<":", ":">>)

\* the feed keys for the region and the instance type that hold 'vpc' and 'linux'
KeysFor(instance_type) ==
    { i \in 1..Len(ad_world.pricing) :
        /\ Len(KeyParts(i)) >= 2
        /\ KeyParts(i)[1] = ad_region
        /\ KeyParts(i)[2] = instance_type
        /\ Contains(ad_world.pricing[i].key, <<"v", "p", "c">>)
        /\ Contains(ad_world.pricing[i].key, <<"l", "i", "n", "u", "x">>) }

\* those of them that have a non-empty 'hours' list
KeysWithHours(instance_type) ==
    { i \in KeysFor(instance_type) :
        /\ "hours" \in DOMAIN ad_world.pricing[i].info
        /\ ad_world.pricing[i].info.hours # <<>> }

\* the price the feed gives for the instance type
FeedPrice(instance_type) ==
    IF KeysWithHours(instance_type) = {}
    THEN Zero
    ELSE ad_world.pricing[Min(KeysWithHours(instance_type))].info.hours[1].price

\* the catalog has a record of the instance type with GPUAmount > 0
InGpuCatalog(instance_type) ==
    \E k \in 1..Len(ad_world.types) :
        /\ Get(ad_world.types[k], "InstanceTypeId", Null) = instance_type
        /\ Positive(Get(ad_world.types[k], "GPUAmount", Zero))

\* C23: every instance type that ali.get_standardized_gpu_instances(region)
\* emits has GPUAmount > 0 in the catalog and has a pricing-feed key whose
\* first '::' part is the region, whose second part is the instance type and
\* which contains 'vpc' and 'linux'; its On-Demand Price is the price of the
\* first such key, in feed order, that has a non-empty 'hours' list, or 0.0
\* when no such key has one.
C23_AliRowsFromFeed ==
    (ad_provider = "ali" /\ ad_pc = "returned") =>
        \A i \in 1..Len(ad_result) :
            /\ InGpuCatalog(ad_result[i]["Instance Type"])
            /\ KeysFor(ad_result[i]["Instance Type"].s) # {}
            /\ ad_result[i]["On-Demand Price ($/hr)"] = FeedPrice(ad_result[i]["Instance Type"].s)

\* the first key for the instance type has an empty 'hours' list and the price
\* is the one of a later key
C23_Witness ==
    /\ ad_provider = "ali" /\ ad_pc = "returned"
    /\ \E i \in 1..Len(ad_result) :
          /\ KeysWithHours(ad_result[i]["Instance Type"].s) # {}
          /\ Min(KeysWithHours(ad_result[i]["Instance Type"].s)) > Min(KeysFor(ad_result[i]["Instance Type"].s))
          /\ Positive(ad_result[i]["On-Demand Price ($/hr)"])

\* C24: when GOOGLE_CLOUD_PROJECT is absent, gcp.get_standardized_gpu_instances
\* returns an empty sequence: it raises nothing and makes no catalog or pricing
\* call, whether or not a client could be made, so the pass of fetch_prices
\* for the pair ends with the collection as it was and the run goes on.
C24_NoProjectGivesEmpty ==
    (ad_provider = "gcp" /\ ~ad_world.project /\ ad_pc # "call") =>
        /\ ad_pc = "returned"
        /\ ad_result = <<>>
        /\ collect_instances(<<>>, Returned(ad_result)) = <<>>

\* the call returned where no client can be made either
C24_Witness ==
    /\ ad_provider = "gcp" /\ ~ad_world.project /\ ~ad_world.client_ok
    /\ ad_pc = "returned" /\ ad_result = <<>>

----------------------------------------------------------------------------
(* Properties of aws.get_on_demand_price (SpecPrice) *)

\* C7: get_on_demand_price ends after a bounded number of pricing requests,
\* whatever the pricing API answers on the successive attempts: the loop is
\* left before the MaxRequests-th request is made.
C7_BoundedRequests == odp_pc = "loop" => requests < MaxRequests

\* C7 as termination, for FairSpecPrice: the call returns or raises.
C7_Terminates == <>(odp_pc \in {"returned", "raised"})

\* C8: while every response carries a price list priced exactly 0.0 the
\* function makes the first request and at most MaxRetries more, and returns
\* 0.0 after request MaxRetries + 1; an attempt that yields a non-zero price
\* returns that price at once; after the return no request is made.
C8_State ==
    /\ (only_zero /\ odp_pc = "loop") => (requests = retries /\ requests <= MaxRetries)
    /\ (only_zero /\ odp_pc = "returned") => (requests = MaxRetries + 1 /\ odp_result = Zero)
    /\ (last_response.kind = "quote" /\ QuotedPrice(odp_region, last_response.quote) # Zero)
           => (odp_pc = "returned"
               /\ odp_result = QuotedPrice(odp_region, last_response.quote))
C8_ZeroPriceRetries ==
    [](C8_State) /\ [][odp_pc = "returned" => requests' = requests]_vars

\* four zero-priced responses in a row, then the return of 0.0
C8_Witness == only_zero /\ odp_pc = "returned" /\ requests = MaxRetries + 1

----------------------------------------------------------------------------
(* Properties of azure.parse_gpu_info (SpecParse) *)

IntegerCount(t) == AllDigits(t)
FractionCount(t) ==
    LET ab == Split(t, <<"/">>)
    IN Len(ab) = 2 /\ AllDigits(ab[1]) /\ AllDigits(ab[2]) /\ PyInt(ab[2]) # 0
FractionValue(t) ==
    LET ab == Split(t, <<"/">>) IN Frac(PyInt(ab[1]), PyInt(ab[2]))
PlainName(t) == t # <<>>
\* nothing, or a parenthetical annotation after a blank
TrailingAnnotation(t) == t = <<>> \/ ParenSuffix(t)

\* C9: "<n>X <name>" and "<n>x <name>" give {gpu_type: name, gpu_count: n};
\* "<a>/<b>X <name>" gives gpu_count a/b; a trailing parenthetical annotation
\* is stripped from the GPU type in the integer and in the fractional form.
C9_ParsesDescriptors ==
    (parse_pc # "call" /\ PlainName(gpu_name) /\ TrailingAnnotation(gpu_suffix)) =>
        /\ (IntegerCount(gpu_prefix) /\ gpu_sep \in {<<"X", " ">>, <<"x", " ">>}) =>
               (parse_pc = "returned"
                /\ parse_result = GpuDict(gpu_name, Num(PyInt(gpu_prefix))))
        /\ (FractionCount(gpu_prefix) /\ gpu_sep = <<"X", " ">>) =>
               (parse_pc = "returned"
                /\ parse_result = GpuDict(gpu_name, FractionValue(gpu_prefix)))

\* C10: for an empty or unparsable descriptor, those with a '/' whose left
\* part is no valid fraction included, parse_gpu_info returns None and never
\* raises.
C10_UnparsableGivesNone ==
    parse_pc # "call" =>
        /\ parse_pc = "returned"
        /\ (gpu_string = <<>>
            \/ (Contains(gpu_prefix, <<"/">>) /\ ~FractionCount(gpu_prefix)))
               => parse_result = Null

----------------------------------------------------------------------------
(* Properties of azure.normalize_instance_name (SpecNormalize) *)

\* C17: normalize_instance_name case-folds: two SKU names that differ only in
\* letter case, in the 'Standard_' prefix for example, normalize to the same
\* join key.
C17_CaseFolds == norm_pc = "returned" => key_a = key_b

----------------------------------------------------------------------------
(* Properties of the price lookup of azure.get_gpu_instances (SpecLookup) *)

\* name without the letter c
Without(name, c) == SelectSeq(name, LAMBDA x : x # c)

\* a record of the lookup is kept under the name
InLookup(name) == \E i \in 1..Len(lk_lookup) : lk_lookup[i].name = name

\* the record the lookup keeps under the name
RecordOf(name) ==
    lk_lookup[CHOOSE i \in 1..Len(lk_lookup) : lk_lookup[i].name = name]

\* the record used comes from the first of the four names that is in the lookup
FirstPresent(n1, n2, n3, n4) ==
    IF InLookup(n1) THEN lk_pricing = RecordOf(n1)
    ELSE IF InLookup(n2) THEN lk_pricing = RecordOf(n2)
    ELSE IF InLookup(n3) THEN lk_pricing = RecordOf(n3)
    ELSE IF InLookup(n4) THEN lk_pricing = RecordOf(n4)
    ELSE lk_pricing = Null

\* C22: the price record of an instance is looked up under the normalized name,
\* then 'standard' + normalized name, then the normalized name without its
\* 'r's, then the normalized name without its 's's; the record of the first
\* of these that is in the pricing lookup is used, whatever later ones are
\* in it too.
C22_FirstVariantUsed ==
    lk_pc = "found" =>
        \E name \in {normalize_instance_name(lk_key)} :
            FirstPresent(name, <<"s", "t", "a", "n", "d", "a", "r", "d">> \o name,
                         Without(name, "r"), Without(name, "s"))

\* the normalized name and the name without its 'r's are both in the lookup,
\* with different prices
C22_Witness ==
    /\ lk_pc = "found"
    /\ \E name \in {normalize_instance_name(lk_key)} :
          /\ Without(name, "r") # name
          /\ InLookup(name) /\ InLookup(Without(name, "r"))
          /\ RecordOf(name).on_demand # RecordOf(Without(name, "r")).on_demand
          /\ lk_pricing = RecordOf(name)

====
